---------------------------- MODULE Spec2Model ----------------------------
(***************************************************************************)
(* Blitzortung lightning integration: the geohash tile coverage solver     *)
(* (geohash_utils.py) and the coordinator that keeps MQTT subscriptions    *)
(* for the covering tiles and filters incoming strikes                     *)
(* (custom_components/blitzortung/__init__.py).                            *)
(*                                                                         *)
(* Numbers.  Python floats are modelled in fixed point:                    *)
(*   - a latitude or longitude is an integer number of millidegrees        *)
(*     (50.0 degrees is 50000);                                            *)
(*   - a Box edge is an integer number of 1/Scale millidegrees, so that    *)
(*     the edges of geohash cells up to precision 6 are exact;             *)
(*   - cos() is a table of cos(d) * 10000 for whole degrees d, linearly    *)
(*     interpolated in between;                                            *)
(*   - a distance is an integer number of tenths of a kilometre (the code  *)
(*     rounds to one decimal place).                                       *)
(***************************************************************************)
EXTENDS Integers, Sequences, FiniteSets, Bags, TLC

VARIABLES
    g_in,         \* solver run: the (lat, lon, radius) given to geohash_overlap
    g_pc,         \* solver run: "input" before the call, "solved" after it
    g_out,        \* solver run: the tile set geohash_overlap returned
    f_in,         \* tiles run: the (lat, lon, radius, precision) given to compute_geohash_tiles
    f_pc,         \* tiles run: "input" before the call, "loop" in its while loop, "returned" after it
    stack,        \* tiles run: the set stack of compute_geohash_tiles
    checked,      \* tiles run: the set checked of compute_geohash_tiles
    p_in,         \* polar run: the observer (lat0, lon0) and the strike (lat, lon)
    p_out,        \* polar run: the distance and azimuth computed, NoPolar before
    m_in,         \* migration run: the config entry given to async_migrate_entry
    m_out,        \* migration run: the config entry when it returned, NoEntry before
    _geocoding_cache,    \* geocoder: the keys of _geocoding_cache, in insertion order
    _last_request_time,  \* geocoder: _last_request_time
    geocodes,            \* geocoder: the calls of reverse_geocode that have not returned
    requests,            \* geocoder: the times at which requests went out, in order
    n_lookups,           \* geocoder: calls of reverse_geocode so far
    host_nr,             \* polling coordinator: host_nr
    poll_last_time,      \* polling coordinator: last_time
    refreshed,           \* polling coordinator: how the last refresh ended and what it returned
    returned_before,     \* polling coordinator: the strikes that earlier refreshes returned
    n_refreshes,         \* polling coordinator: refreshes so far
    _strikes,            \* event manager: the items of its Strikes list
    _keys,               \* event manager: _keys of its Strikes list
    _max_key,            \* event manager: _max_key of its Strikes list
    cleaned,             \* event manager: the last call on the Strikes list and what it returned
    n_calls              \* event manager: calls on the Strikes list so far

gc_vars == <<_geocoding_cache, _last_request_time, geocodes, requests, n_lookups>>

poll_vars == <<host_nr, poll_last_time, refreshed, returned_before, n_refreshes>>

strike_vars == <<_strikes, _keys, _max_key, cleaned, n_calls>>

geo_vars ==
    <<g_in, g_pc, g_out, f_in, f_pc, stack, checked, p_in, p_out, m_in, m_out, gc_vars, poll_vars, strike_vars>>

VARIABLES
    \* BlitzortungCoordinator
    latitude, longitude,    \* self.latitude, self.longitude (millidegrees)
    self_radius,            \* self.radius (km)
    tracking_mode,          \* "static" or "device_tracker" (then device_tracker is set)
    self_geohash_overlap,   \* self.geohash_overlap: the coverage last computed
    unloading,              \* self.unloading
    location_available,     \* self._location_available
    disconnect_callbacks,   \* self._disconnect_callbacks: the listeners to remove
    \* self.mqtt_client
    connected,              \* mqtt_client.connected
    subscriptions,          \* the bag of topic filters the client holds
    \* Home Assistant
    tracker,                \* the state of the tracked entity in hass.states
    listening,              \* the listeners registered with hass
    \* control
    conn_pc,                \* where connect() stands
    conn_todo,              \* tiles the for loop of connect() has still to subscribe
    disc_pc,                \* where disconnect() stands
    setup_result,           \* how async_setup_entry ended: "pending", "ok" or "raised"
    tasks,                  \* the _resubscribe_geohashes tasks created and not ended
    \* history
    last_batch,             \* what the _resubscribe_geohashes task that ended last did
    n_events,               \* tracker state changes delivered so far
    n_failures,             \* transport calls that raised so far
    n_disconnects           \* disconnect() calls returned so far

coord_vars ==
    <<latitude, longitude, self_radius, tracking_mode, self_geohash_overlap, unloading,
      location_available, disconnect_callbacks, connected, subscriptions, tracker,
      listening, conn_pc, conn_todo, disc_pc, setup_result, tasks, last_batch, n_events,
      n_failures, n_disconnects>>

VARIABLES
    \* BlitzortungCoordinator: the strike pipeline
    enable_geocoding,       \* whether self.geocoding_service is set
    last_time,              \* self.last_time
    callbacks,              \* self.callbacks: message receivers, in order
    lightning_callbacks,    \* self.lightning_callbacks: lightning receivers, in order
    sensors,                \* self.sensors, in order
    entities,               \* for each registered listener, the class and the
                            \* _attr_native_value of the entity it belongs to
    pending,                \* on_mqtt_message calls suspended in reverse_geocode
    time_window_seconds,    \* self.time_window_seconds
    server_stats,           \* self.server_stats
    \* the world
    now,                    \* time.time()
    \* history
    registered,             \* every listener registered so far, in registration order
    invoked,                \* the listener calls made by the handler step that ran last
    last_msg,               \* the strike that on_mqtt_message decoded last
    last_topic,             \* the topic of the message that on_mqtt_message took last
    last_payload,           \* the kind of payload that on_mqtt_message took last
    escaped,                \* whether the last call of on_mqtt_message raised
    n_msgs,                 \* messages delivered to on_mqtt_message so far
    last_handler,           \* the listener of hass that ran last: its name, what
                            \* self.unloading was, the sensors whose state it wrote
    n_signals,              \* connection signals dispatched so far
    enrichment              \* how reverse_geocode ended for the strike passed on
                            \* last, and the area the strike was given

ingest_vars ==
    <<enable_geocoding, last_time, callbacks, lightning_callbacks, sensors, entities,
      pending, time_window_seconds, server_stats, now, registered, invoked, last_msg,
      last_topic, last_payload, escaped, n_msgs, last_handler, n_signals, enrichment>>

vars == <<geo_vars, coord_vars, ingest_vars>>

Min(a, b) == IF a < b THEN a ELSE b
Max(a, b) == IF a > b THEN a ELSE b
Abs(a) == IF a < 0 THEN -a ELSE a

(***************************************************************************)
(* Fixed point                                                             *)
(***************************************************************************)
Scale == 2^9

\* cos(d degrees) * 10000 for d = 0..90
CosTable ==
    << 10000, 9998, 9994, 9986, 9976, 9962, 9945, 9925, 9903, 9877,
       9848, 9816, 9781, 9744, 9703, 9659, 9613, 9563, 9511, 9455,
       9397, 9336, 9272, 9205, 9135, 9063, 8988, 8910, 8829, 8746,
       8660, 8572, 8480, 8387, 8290, 8192, 8090, 7986, 7880, 7771,
       7660, 7547, 7431, 7314, 7193, 7071, 6947, 6820, 6691, 6561,
       6428, 6293, 6157, 6018, 5878, 5736, 5592, 5446, 5299, 5150,
       5000, 4848, 4695, 4540, 4384, 4226, 4067, 3907, 3746, 3584,
       3420, 3256, 3090, 2924, 2756, 2588, 2419, 2250, 2079, 1908,
       1736, 1564, 1392, 1219, 1045, 872, 698, 523, 349, 175, 0 >>

\* math.cos(lat * math.pi / 180.0) * 10000, lat in millidegrees
cos(lat) ==
    LET a == Abs(lat)
        d == a \div 1000
        f == a % 1000
    IN  IF d >= 90 THEN 0
        ELSE (CosTable[d + 1] * (1000 - f) + CosTable[d + 2] * f) \div 1000

(***************************************************************************)
(* Geohash codec (module geohash): a tile is the sequence of the base-32   *)
(* digit values of its geohash string; Base32 gives each digit's character.*)
(***************************************************************************)
Base32 ==
    << "0", "1", "2", "3", "4", "5", "6", "7", "8", "9", "b", "c", "d", "e",
       "f", "g", "h", "j", "k", "m", "n", "p", "q", "r", "s", "t", "u", "v",
       "w", "x", "y", "z" >>

\* Of the 5p bits of a precision-p geohash the even ones (0, 2, ...) bisect
\* the longitude and the odd ones the latitude.
LonBits(p) == (5 * p + 1) \div 2
LatBits(p) == (5 * p) \div 2

\* Height and width of a precision-p cell, in 1/Scale millidegrees.
CellH(p) == (180000 * Scale) \div (2^LatBits(p))
CellW(p) == (360000 * Scale) \div (2^LonBits(p))

\* Bit j (0 = most significant) of the nbits-bit number idx.
BitOf(idx, nbits, j) == (idx \div (2^(nbits - 1 - j))) % 2

\* Bit j (0-based, over the whole string) of the interleaved geohash of the
\* cell in row latIdx and column lonIdx.
GeoBit(latIdx, lonIdx, p, j) ==
    IF j % 2 = 0 THEN BitOf(lonIdx, LonBits(p), j \div 2)
    ELSE BitOf(latIdx, LatBits(p), (j - 1) \div 2)

\* The geohash of the cell (latIdx, lonIdx) at precision p.
TileOf(latIdx, lonIdx, p) ==
    [d \in 1..p |->
        GeoBit(latIdx, lonIdx, p, 5 * (d - 1)) * 16
      + GeoBit(latIdx, lonIdx, p, 5 * (d - 1) + 1) * 8
      + GeoBit(latIdx, lonIdx, p, 5 * (d - 1) + 2) * 4
      + GeoBit(latIdx, lonIdx, p, 5 * (d - 1) + 3) * 2
      + GeoBit(latIdx, lonIdx, p, 5 * (d - 1) + 4)]

\* Bit j of the geohash gh.
HashBit(gh, j) == BitOf(gh[(j \div 5) + 1], 5, j % 5)

RECURSIVE SumBits(_, _, _, _)
\* The number spelled by the bits first, first + 2, ... (n of them) of gh.
SumBits(gh, first, n, acc) ==
    IF n = 0 THEN acc
    ELSE SumBits(gh, first + 2, n - 1, 2 * acc + HashBit(gh, first))

LonIndex(gh) == SumBits(gh, 0, LonBits(Len(gh)), 0)
LatIndex(gh) == SumBits(gh, 1, LatBits(Len(gh)), 0)

RECURSIVE CellIndex(_, _, _, _)
\* nbits bisections of an interval of width `range` for the offset x in it
\* (0 <= x <= range): each bit tells whether x lies in the upper half.
CellIndex(x, range, nbits, acc) ==
    IF nbits = 0 THEN acc
    ELSE IF 2 * x >= range
         THEN CellIndex(2 * x - range, range, nbits - 1, 2 * acc + 1)
         ELSE CellIndex(2 * x, range, nbits - 1, 2 * acc)

\* geohash.encode(lat, lon, precision): the tile containing the point; the
\* north and east edges of the world fall into the last row and column.
encode(lat, lon, precision) ==
    TileOf(CellIndex(lat + 90000, 180000, LatBits(precision), 0),
           CellIndex(lon + 180000, 360000, LonBits(precision), 0),
           precision)

\* geohash.bbox(gh): the rectangle of the tile.
geohash_bbox(gh) ==
    LET p == Len(gh)
        s == LatIndex(gh) * CellH(p) - 90000 * Scale
        w == LonIndex(gh) * CellW(p) - 180000 * Scale
    IN  [s |-> s, w |-> w, n |-> s + CellH(p), e |-> w + CellW(p)]

\* geohash.neighbors(gh): the tiles around gh at its precision; columns wrap
\* around the antimeridian, rows saturate at the poles.
neighbors(gh) ==
    LET p == Len(gh)
        rows == 2^LatBits(p)
        cols == 2^LonBits(p)
        row == LatIndex(gh)
        col == LonIndex(gh)
    IN  { TileOf(Max(0, Min(rows - 1, row + dr)), (col + dc + cols) % cols, p) :
              dr \in {-1, 0, 1}, dc \in {-1, 0, 1} } \ {gh}

(***************************************************************************)
(* geohash_utils.py                                                        *)
(***************************************************************************)
\* A longitude half-width of two turns or more reaches every column whatever
\* the centre is; wider boxes (cos near 0) are cut to it.
WholeWorld == 720000

\* bbox(lat, lon, radius): radius * 360 / 40000 degrees is radius * 9
\* millidegrees.
bbox(lat, lon, radius) ==
    LET lat_delta == radius * 9
        lon_delta == IF cos(lat) = 0 THEN WholeWorld
                     ELSE Min(WholeWorld, (lat_delta * 10000) \div cos(lat))
    IN  [s |-> (lat - lat_delta) * Scale, w |-> (lon - lon_delta) * Scale,
         n |-> (lat + lat_delta) * Scale, e |-> (lon + lon_delta) * Scale]

overlap_or_touch(a1, a2, b1, b2) == a1 <= b2 /\ a2 >= b1

overlap(a1, a2, b1, b2) == a1 < b2 /\ a2 > b1

box_overlap(box1, box2) ==
    /\ overlap(box1.s, box1.n, box2.s, box2.n)
    /\ overlap(box1.w, box1.e, box2.w, box2.e)

\* The while loop of compute_geohash_tiles.  set.pop() takes the tiles of the
\* stack in no specified order and the set returned is the same for every
\* order, so the tiles that are on the stack together are popped in one
\* round: their unchecked overlapping neighbours go to both sets.
flood_one_round(todo, done, bounds) ==
    done \cup { nb \in UNION { neighbors(current) : current \in todo } :
                  box_overlap(geohash_bbox(nb), bounds) }

RECURSIVE flood(_, _, _)
flood(todo, done, bounds) ==
    IF todo = {} THEN done
    ELSE LET found == { nb \in UNION { neighbors(current) : current \in todo } :
                          nb \notin done /\ box_overlap(geohash_bbox(nb), bounds) }
         IN  flood(found, done \cup found, bounds)

compute_geohash_tiles(lat, lon, radius, precision) ==
    LET bounds == bbox(lat, lon, radius)
        center == encode(lat, lon, precision)
    IN  flood({center}, {center}, bounds)

max_tiles == 9
last_precision == 12

overlap_from_first_fit(lat, lon, radius, precision, result) ==
    LET tiles == compute_geohash_tiles(lat, lon, radius, precision)
    IN  IF Cardinality(tiles) <= max_tiles THEN tiles ELSE result

RECURSIVE overlap_from(_, _, _, _, _)
\* The for loop of geohash_overlap from `precision` on, `result` being the
\* best set so far.
overlap_from(lat, lon, radius, precision, result) ==
    IF precision > last_precision THEN result
    ELSE LET tiles == compute_geohash_tiles(lat, lon, radius, precision)
         IN  IF Cardinality(tiles) <= max_tiles
             THEN overlap_from(lat, lon, radius, precision + 1, tiles)
             ELSE result

geohash_overlap(lat, lon, radius) == overlap_from(lat, lon, radius, 1, {})

(***************************************************************************)
(* Solver runs: geohash_overlap applied once to a centre and a radius      *)
(* drawn from a grid that holds the poles, the antimeridian and radii from *)
(* tens to thousands of kilometres.                                        *)
(***************************************************************************)
GeoLats == {-90000, -45000, 0, 40000, 50000, 90000}
GeoLons == {-180000, -90000, 0, 10000, 179900, 180000}
GeoRadii == {50, 100, 1000, 5000}

NoPolar == [distance |-> -1, azimuth |-> -1]

PolarIdle == p_in = [lat0 |-> 0, lon0 |-> 0, lat |-> 0, lon |-> 0] /\ p_out = NoPolar

\* A config entry: its version, the latitude and longitude, the location
\* entity and the config_type its data holds, and the latitude and
\* longitude, the name of the time option and the geocoding option its
\* options hold.
ConfigEntry(version, data_latlon, location_entity, options_latlon, time_option, geocoding) ==
    [version |-> version, data_latlon |-> data_latlon, location_entity |-> location_entity,
     config_type |-> "absent", options_latlon |-> options_latlon,
     time_option |-> time_option, enable_geocoding |-> geocoding]

\* A key that the dict does not hold.
Absent == [kind |-> "absent", lat |-> 0, lon |-> 0]

NoEntry == ConfigEntry(0, Absent, FALSE, Absent, "absent", FALSE)

MigrateIdle == m_in = NoEntry /\ m_out = NoEntry

TilesIdle ==
    /\ f_in = [lat |-> 0, lon |-> 0, radius |-> 0, precision |-> 0]
    /\ f_pc = "off" /\ stack = {} /\ checked = {}

\* No reverse geocoding has been asked for.
GeocoderIdle ==
    /\ _geocoding_cache = <<>>
    /\ _last_request_time = 0
    /\ geocodes = <<>>
    /\ requests = <<>>
    /\ n_lookups = 0

\* BlitzortungDataUpdateCoordinator.__init__: host_nr = 1, last_time = 0; no
\* refresh has run.
NoRefresh == [outcome |-> "none", before |-> 0, returned |-> <<>>]

PollIdle ==
    /\ host_nr = 1
    /\ poll_last_time = 0
    /\ refreshed = NoRefresh
    /\ returned_before = {}
    /\ n_refreshes = 0

\* Strikes.__init__: no items, no keys, _max_key = 0; no call has been made.
NoCall == [op |-> "none", k |-> 0, returned |-> <<>>]

StrikesIdle ==
    /\ _strikes = <<>>
    /\ _keys = <<>>
    /\ _max_key = 0
    /\ cleaned = NoCall
    /\ n_calls = 0

GeoIdle ==
    /\ g_in = [lat |-> 0, lon |-> 0, radius |-> 0] /\ g_pc = "off" /\ g_out = {}
    /\ TilesIdle
    /\ PolarIdle
    /\ MigrateIdle
    /\ GeocoderIdle
    /\ PollIdle
    /\ StrikesIdle

GeoInit ==
    /\ g_in \in [lat : GeoLats, lon : GeoLons, radius : GeoRadii]
    /\ g_pc = "input"
    /\ g_out = {}
    /\ TilesIdle
    /\ PolarIdle
    /\ MigrateIdle
    /\ GeocoderIdle
    /\ PollIdle
    /\ StrikesIdle

Solve ==
    /\ g_pc = "input"
    /\ g_pc' = "solved"
    /\ g_out' = geohash_overlap(g_in.lat, g_in.lon, g_in.radius)
    /\ UNCHANGED <<g_in, f_in, f_pc, stack, checked, p_in, p_out, m_in, m_out,
                   gc_vars, poll_vars, strike_vars>>

(***************************************************************************)
(* Tiles runs: compute_geohash_tiles applied once to a centre, a radius    *)
(* and a precision, as one call or one round of its while loop at a time.  *)
(***************************************************************************)
TilePrecisions == {1, 2, 3}

\* Inputs whose tile sets are small enough to follow every order in which
\* set.pop() can take the stack.
LoopLats == {0, 50000, 90000}
LoopLons == {-180000, 10000, 179900}
LoopRadii == {50, 1000}
LoopPrecisions == {1, 2}

\* The third precision is run for the radii whose tile sets stay in the
\* hundreds.
TileInputs ==
    { input \in [lat : GeoLats, lon : GeoLons, radius : GeoRadii,
                 precision : TilePrecisions] :
        input.precision <= 2 \/ input.radius <= 100 }

TilesInit ==
    /\ f_in \in TileInputs
    /\ f_pc = "input"
    /\ stack = {}
    /\ checked = {}

LoopInputs ==
    { input \in [lat : LoopLats, lon : LoopLons, radius : LoopRadii,
                 precision : LoopPrecisions] :
        input.precision = 1 \/ input.radius = 50 }

LoopInit ==
    /\ f_in \in LoopInputs
    /\ f_pc = "input"
    /\ stack = {}
    /\ checked = {}

\* compute_geohash_tiles from its call to its return.
Tiles ==
    /\ f_pc = "input"
    /\ f_pc' = "returned"
    /\ stack' = {}
    /\ checked' = compute_geohash_tiles(f_in.lat, f_in.lon, f_in.radius, f_in.precision)
    /\ UNCHANGED <<g_in, g_pc, g_out, f_in, p_in, p_out, m_in, m_out,
                   gc_vars, poll_vars, strike_vars>>
    /\ UNCHANGED <<coord_vars, ingest_vars>>

\* compute_geohash_tiles up to its while loop: the centre is on the stack
\* and checked.
TilesCall ==
    /\ f_pc = "input"
    /\ f_pc' = "loop"
    /\ LET center == encode(f_in.lat, f_in.lon, f_in.precision)
       IN  stack' = {center} /\ checked' = {center}
    /\ UNCHANGED <<g_in, g_pc, g_out, f_in, p_in, p_out, m_in, m_out,
                   gc_vars, poll_vars, strike_vars>>
    /\ UNCHANGED <<coord_vars, ingest_vars>>

TilesPopUnchecked(current) ==
    /\ f_pc = "loop"
    /\ current \in stack
    /\ LET bounds == bbox(f_in.lat, f_in.lon, f_in.radius)
           found == { neighbor \in neighbors(current) :
                        box_overlap(geohash_bbox(neighbor), bounds) }
       IN  /\ stack' = (stack \ {current}) \cup found
           /\ checked' = checked \cup found
    /\ UNCHANGED <<g_in, g_pc, g_out, f_in, f_pc, p_in, p_out, m_in, m_out,
                   gc_vars, poll_vars, strike_vars>>
    /\ UNCHANGED <<coord_vars, ingest_vars>>

\* One round of the while loop: stack.pop() gives `current`, and each of its
\* neighbours that is not checked and overlaps the bounds goes to both sets.
TilesPop(current) ==
    /\ f_pc = "loop"
    /\ current \in stack
    /\ LET bounds == bbox(f_in.lat, f_in.lon, f_in.radius)
           found == { neighbor \in neighbors(current) :
                        /\ neighbor \notin checked
                        /\ box_overlap(geohash_bbox(neighbor), bounds) }
       IN  /\ stack' = (stack \ {current}) \cup found
           /\ checked' = checked \cup found
    /\ UNCHANGED <<g_in, g_pc, g_out, f_in, f_pc, p_in, p_out, m_in, m_out,
                   gc_vars, poll_vars, strike_vars>>
    /\ UNCHANGED <<coord_vars, ingest_vars>>

\* The stack is empty: the while loop ends and checked is returned.
TilesReturn ==
    /\ f_pc = "loop"
    /\ stack = {}
    /\ f_pc' = "returned"
    /\ UNCHANGED <<g_in, g_pc, g_out, f_in, stack, checked, p_in, p_out, m_in, m_out,
                   gc_vars, poll_vars, strike_vars>>
    /\ UNCHANGED <<coord_vars, ingest_vars>>

(***************************************************************************)
(* The coordinator's world: places the observer is configured at or is     *)
(* reported at, and the bounds of a run.                                   *)
(***************************************************************************)
Place(lat, lon) == [kind |-> "location", lat |-> lat, lon |-> lon]

Home == Place(50000, 10000)
HomeJitter == Place(50000, 10001)   \* 0.001 degrees east of Home
Far == Place(50500, 10000)          \* half a degree north: a coverage that shares tiles with Home's
FarNearby == Place(50502, 10000)    \* 0.002 degrees north of Far, within Far's coverage

Places == {Home, HomeJitter, Far, FarNearby}
Radii == {50}

\* What hass.states holds for the tracked entity: a state with coordinates, a
\* state without usable coordinates (unavailable, unknown, no attributes), or
\* no state at all.
Unavailable == [kind |-> "unavailable", lat |-> 0, lon |-> 0]
NoCoordinates == [kind |-> "no_coordinates", lat |-> 0, lon |-> 0]
Removed == [kind |-> "removed", lat |-> 0, lon |-> 0]
TrackerStates == Places \cup {Unavailable, NoCoordinates, Removed}

MaxEvents == 2
MaxFailures == 1
MaxDisconnects == 2

\* geohash_overlap for the places and radii of a run, computed once.
CoverageTable ==
    [pl \in Places, r \in Radii |-> geohash_overlap(pl.lat, pl.lon, r)]

Coverage(lat, lon, r) == CoverageTable[Place(lat, lon), r]

(***************************************************************************)
(* MQTT client (module mqtt): a bag of topic filters, one copy per          *)
(* async_subscribe call that returned and was not unsubscribed.            *)
(***************************************************************************)
async_subscribe(subs, topic) == subs (+) SetToBag({topic})

\* A topic is the sequence of its levels.
\* "blitzortung/1.1/{}/#".format("/".join(geohash_code))
TileTopic(geohash_code) ==
    <<"blitzortung", "1.1">>
        \o [i \in 1..Len(geohash_code) |-> Base32[geohash_code[i] + 1]]
        \o <<"#">>

HelloTopic == <<"component", "hello">>

\* "$SYS/broker/#"
SysTopic == <<"$SYS", "broker", "#">>

\* The tile topic filters the client holds.
HeldTileTopics == { t \in BagToSet(subscriptions) : t[1] = "blitzortung" }

(***************************************************************************)
(* BlitzortungCoordinator                                                  *)
(***************************************************************************)
\* The order in which a for loop walks a set of tiles is not specified; the
\* model walks it in lexicographic order.
LexLess(a, b) ==
    \E i \in 1..Len(a) : a[i] < b[i] /\ \A j \in 1..(i - 1) : a[j] = b[j]

NextTile(S) == CHOOSE t \in S : \A u \in S \ {t} : LexLess(t, u)

\* _get_device_tracker_location
_get_device_tracker_location_or_default(state) ==
    IF state.kind = "location" THEN state ELSE Far

_get_device_tracker_location(state) ==
    IF state.kind = "location" THEN state ELSE Unavailable

\* The task _update_location creates: `old` is the coverage it replaces;
\* `iter` and `issued` are the tiles its for loop has still to subscribe and
\* has subscribed.
NewTask(old) == [pc |-> "created", old |-> old, new |-> {}, iter |-> {}, issued |-> {}]

\* _update_location(new_latitude, new_longitude), with mqtt_client.connected
\* as it is when the coverage is compared.
_update_location(new_latitude, new_longitude, is_connected) ==
    LET new_geohash_overlap == Coverage(new_latitude, new_longitude, self_radius)
    IN  /\ latitude' = new_latitude
        /\ longitude' = new_longitude
        /\ IF new_geohash_overlap # self_geohash_overlap
           THEN /\ self_geohash_overlap' = new_geohash_overlap
                /\ tasks' = IF is_connected
                            THEN Append(tasks, NewTask(self_geohash_overlap))
                            ELSE tasks
           ELSE UNCHANGED <<self_geohash_overlap, tasks>>

\* The movement test of _device_tracker_state_changed: 0.001 degrees is one
\* millidegree.
min_move == 1

moved_at_all(new_lat, new_lon) ==
    new_lat # latitude \/ new_lon # longitude

moved(new_lat, new_lon) ==
    Abs(new_lat - latitude) > min_move \/ Abs(new_lon - longitude) > min_move

Init ==
    /\ \E pl \in {Home} : latitude = pl.lat /\ longitude = pl.lon
    /\ self_radius \in Radii
    /\ tracking_mode \in {"static", "device_tracker"}
    /\ self_geohash_overlap = Coverage(latitude, longitude, self_radius)
    /\ unloading = FALSE
    /\ location_available = TRUE
    /\ disconnect_callbacks = <<"mqtt_connected", "mqtt_disconnected">>
    /\ connected = FALSE
    /\ subscriptions = EmptyBag
    /\ tracker \in (IF tracking_mode = "static" THEN {Removed} ELSE TrackerStates)
    /\ listening = {"mqtt_connected", "mqtt_disconnected"}
    /\ conn_pc = "idle"
    /\ conn_todo = {}
    /\ disc_pc = "idle"
    /\ setup_result = "pending"
    /\ tasks = <<>>
    /\ last_batch = [ended |-> FALSE, failed |-> FALSE, old |-> {}, new |-> {},
                     subscribed |-> {}, unsubscribed |-> {}]
    /\ n_events = 0
    /\ n_failures = 0
    /\ n_disconnects = 0

\* async_setup_entry calls connect(), which awaits mqtt_client.async_connect().
ConnectCall ==
    /\ conn_pc = "idle"
    /\ conn_pc' = "connecting"
    /\ UNCHANGED <<geo_vars, ingest_vars, setup_result,
                   latitude, longitude, self_radius, tracking_mode, self_geohash_overlap,
                   unloading, location_available, disconnect_callbacks, connected,
                   subscriptions, tracker, listening, conn_todo, disc_pc, tasks,
                   last_batch, n_events, n_failures, n_disconnects>>

\* async_connect() raises: connect() raises, and so does async_setup_entry,
\* which awaits it outside any try.
ConnectRaises ==
    /\ conn_pc = "connecting"
    /\ n_failures < MaxFailures
    /\ n_failures' = n_failures + 1
    /\ conn_pc' = "failed"
    /\ setup_result' = "raised"
    /\ UNCHANGED <<geo_vars, ingest_vars,
                   latitude, longitude, self_radius, tracking_mode, self_geohash_overlap,
                   unloading, location_available, disconnect_callbacks, connected,
                   subscriptions, tracker, listening, conn_todo, disc_pc, tasks,
                   last_batch, n_events, n_disconnects>>

\* async_connect() returns, with the client's connected flag set or not yet
\* set (now_connected); connect() runs on to its first async_subscribe: in
\* tracking mode it takes the tracker's location and registers the state
\* change listener, then it enters the for loop over self.geohash_overlap.
ConnectContinues(now_connected) ==
    /\ conn_pc = "connecting"
    /\ connected' = now_connected
    /\ IF tracking_mode = "device_tracker"
       THEN LET location == _get_device_tracker_location(tracker)
            IN  /\ IF location.kind = "location"
                   THEN /\ _update_location(location.lat, location.lon, now_connected)
                        /\ UNCHANGED location_available
                   ELSE /\ location_available' = FALSE
                        /\ UNCHANGED <<latitude, longitude, self_geohash_overlap, tasks>>
                /\ disconnect_callbacks' = Append(disconnect_callbacks, "state_change")
                /\ listening' = listening \cup {"state_change"}
       ELSE UNCHANGED <<latitude, longitude, self_geohash_overlap, tasks,
                        location_available, disconnect_callbacks, listening>>
    /\ conn_todo' = self_geohash_overlap'
    /\ conn_pc' = "subscribing"
    /\ UNCHANGED <<geo_vars, ingest_vars, setup_result,
                   self_radius, tracking_mode, unloading, subscriptions, tracker, disc_pc,
                   last_batch, n_events, n_failures, n_disconnects>>

\* The client learns that the broker accepted the connection.
TransportConnected ==
    /\ conn_pc \in {"subscribing", "hello", "done"}
    /\ ~connected
    /\ n_disconnects = 0 /\ disc_pc = "idle"
    /\ connected' = TRUE
    /\ UNCHANGED <<geo_vars, ingest_vars, setup_result,
                   latitude, longitude, self_radius, tracking_mode, self_geohash_overlap,
                   unloading, location_available, disconnect_callbacks, subscriptions,
                   tracker, listening, conn_pc, conn_todo, disc_pc, tasks, last_batch,
                   n_events, n_failures, n_disconnects>>

\* One async_subscribe of the for loop of connect() returns.
ConnectSubscribes ==
    /\ conn_pc = "subscribing"
    /\ conn_todo # {}
    /\ LET geohash_code == NextTile(conn_todo)
       IN  /\ subscriptions' = async_subscribe(subscriptions, TileTopic(geohash_code))
           /\ conn_todo' = conn_todo \ {geohash_code}
    /\ UNCHANGED <<geo_vars, ingest_vars, setup_result,
                   latitude, longitude, self_radius, tracking_mode, self_geohash_overlap,
                   unloading, location_available, disconnect_callbacks, connected,
                   tracker, listening, conn_pc, disc_pc, tasks, last_batch, n_events,
                   n_failures, n_disconnects>>

ConnectSubscribeRetried ==
    /\ \/ conn_pc = "subscribing" /\ conn_todo # {}
       \/ conn_pc = "hello"
    /\ n_failures < MaxFailures
    /\ n_failures' = n_failures + 1
    /\ UNCHANGED <<geo_vars, ingest_vars, setup_result, conn_pc,
                   latitude, longitude, self_radius, tracking_mode, self_geohash_overlap,
                   unloading, location_available, disconnect_callbacks, connected,
                   subscriptions, tracker, listening, conn_todo, disc_pc, tasks,
                   last_batch, n_events, n_disconnects>>

\* An async_subscribe of connect() raises: connect() raises, and so does
\* async_setup_entry.
ConnectSubscribeRaises ==
    /\ \/ conn_pc = "subscribing" /\ conn_todo # {}
       \/ conn_pc = "hello"
    /\ n_failures < MaxFailures
    /\ n_failures' = n_failures + 1
    /\ conn_pc' = "failed"
    /\ setup_result' = "raised"
    /\ UNCHANGED <<geo_vars, ingest_vars,
                   latitude, longitude, self_radius, tracking_mode, self_geohash_overlap,
                   unloading, location_available, disconnect_callbacks, connected,
                   subscriptions, tracker, listening, conn_todo, disc_pc, tasks,
                   last_batch, n_events, n_disconnects>>

\* The for loop of connect() is through: with server_stats on connect()
\* subscribes on_mqtt_message to $SYS/broker/#; it then awaits the
\* subscription to component/hello.
ConnectLoopEnds ==
    /\ conn_pc = "subscribing"
    /\ conn_todo = {}
    /\ conn_pc' = "hello"
    /\ subscriptions' = IF server_stats THEN async_subscribe(subscriptions, SysTopic)
                        ELSE subscriptions
    /\ UNCHANGED <<geo_vars, ingest_vars, setup_result,
                   latitude, longitude, self_radius, tracking_mode, self_geohash_overlap,
                   unloading, location_available, disconnect_callbacks, connected,
                   tracker, listening, conn_todo, disc_pc, tasks,
                   last_batch, n_events, n_failures, n_disconnects>>

\* The subscription to component/hello returns; connect() registers the tick
\* and returns, and async_setup_entry returns True.
ConnectReturns ==
    /\ conn_pc = "hello"
    /\ subscriptions' = async_subscribe(subscriptions, HelloTopic)
    /\ disconnect_callbacks' = Append(disconnect_callbacks, "tick")
    /\ listening' = listening \cup {"tick"}
    /\ conn_pc' = "done"
    /\ setup_result' = "ok"
    /\ UNCHANGED <<geo_vars, ingest_vars,
                   latitude, longitude, self_radius, tracking_mode, self_geohash_overlap,
                   unloading, location_available, connected, tracker, conn_todo,
                   disc_pc, tasks, last_batch, n_events, n_failures, n_disconnects>>

\* is_connected: mqtt_client.connected and (tracking_mode == "static" or
\* _location_available)
is_connected == connected /\ (tracking_mode = "static" \/ location_available)

\* hass sets the tracked entity's state and calls _device_tracker_state_changed.
DeviceTrackerStateChanged(new_state) ==
    /\ "state_change" \in listening
    /\ n_events < MaxEvents
    /\ n_events' = n_events + 1
    /\ tracker' = new_state
    /\ IF unloading \/ tracking_mode # "device_tracker" \/ new_state.kind = "removed"
       THEN UNCHANGED <<latitude, longitude, self_geohash_overlap, tasks,
                        location_available>>
       ELSE LET location == _get_device_tracker_location(new_state)
            IN  IF location.kind = "location"
                THEN IF moved(location.lat, location.lon)
                     THEN /\ _update_location(location.lat, location.lon, connected)
                          /\ location_available' = TRUE
                     ELSE UNCHANGED <<latitude, longitude, self_geohash_overlap, tasks,
                                      location_available>>
                ELSE /\ location_available' = FALSE
                     /\ UNCHANGED <<latitude, longitude, self_geohash_overlap, tasks>>
    /\ last_handler' = [name |-> "state_change", unloading |-> unloading,
                        written |-> <<>>]
    /\ UNCHANGED <<geo_vars, setup_result,
                   self_radius, tracking_mode, unloading, disconnect_callbacks, connected,
                   subscriptions, listening, conn_pc, conn_todo, disc_pc, last_batch,
                   n_failures, n_disconnects>>
    /\ UNCHANGED <<enable_geocoding, last_time, callbacks, lightning_callbacks, sensors,
                   entities, pending, time_window_seconds, server_stats, now, registered,
                   invoked, last_msg, last_topic, last_payload, escaped, n_msgs,
                   n_signals, enrichment>>

\* Connection signals dispatched to one coordinator.
MaxSignals == 2

OnConnectionChangeUnguarded(signal) ==
    /\ signal \in listening
    /\ n_signals < MaxSignals
    /\ n_signals' = n_signals + 1
    /\ last_handler' = [name |-> "connection_change", unloading |-> unloading,
                        written |-> sensors]
    /\ UNCHANGED <<geo_vars, coord_vars>>
    /\ UNCHANGED <<enable_geocoding, last_time, callbacks, lightning_callbacks, sensors,
                   entities, pending, time_window_seconds, server_stats, now, registered,
                   invoked, last_msg, last_topic, last_payload, escaped, n_msgs,
                   enrichment>>

\* The dispatcher delivers MQTT_CONNECTED or MQTT_DISCONNECTED to
\* _on_connection_change: unless unloading, async_write_ha_state of every
\* sensor of self.sensors.
OnConnectionChange(signal) ==
    /\ signal \in listening
    /\ n_signals < MaxSignals
    /\ n_signals' = n_signals + 1
    /\ last_handler' = [name |-> "connection_change", unloading |-> unloading,
                        written |-> IF unloading THEN <<>> ELSE sensors]
    /\ UNCHANGED <<geo_vars, coord_vars>>
    /\ UNCHANGED <<enable_geocoding, last_time, callbacks, lightning_callbacks, sensors,
                   entities, pending, time_window_seconds, server_stats, now, registered,
                   invoked, last_msg, last_topic, last_payload, escaped, n_msgs,
                   enrichment>>

\* tasks without its i-th element
RemoveAt(seq, i) == SubSeq(seq, 1, i - 1) \o SubSeq(seq, i + 1, Len(seq))

BatchOf(task, failed) ==
    [ended |-> TRUE, failed |-> failed, old |-> task.old, new |-> task.new,
     subscribed |-> task.issued, unsubscribed |-> {}]

\* A task begins _resubscribe_geohashes: its for loop takes self.geohash_overlap
\* as it is now.
TaskStarts(i) ==
    /\ tasks[i].pc = "created"
    /\ IF self_geohash_overlap = {}
       THEN /\ tasks' = RemoveAt(tasks, i)
            /\ last_batch' = BatchOf(tasks[i], FALSE)
       ELSE /\ tasks' = [tasks EXCEPT ![i].pc = "running",
                                      ![i].new = self_geohash_overlap,
                                      ![i].iter = self_geohash_overlap]
            /\ UNCHANGED last_batch
    /\ UNCHANGED <<geo_vars, ingest_vars, setup_result,
                   latitude, longitude, self_radius, tracking_mode, self_geohash_overlap,
                   unloading, location_available, disconnect_callbacks, connected,
                   subscriptions, tracker, listening, conn_pc, conn_todo, disc_pc,
                   n_events, n_failures, n_disconnects>>

\* One async_subscribe of a task returns; after the last one the task ends.
TaskSubscribes(i) ==
    /\ tasks[i].pc = "running"
    /\ LET geohash_code == NextTile(tasks[i].iter)
           after == [tasks[i] EXCEPT !.iter = @ \ {geohash_code},
                                     !.issued = @ \cup {geohash_code}]
       IN  /\ subscriptions' = async_subscribe(subscriptions, TileTopic(geohash_code))
           /\ IF after.iter = {}
              THEN /\ tasks' = RemoveAt(tasks, i)
                   /\ last_batch' = BatchOf(after, FALSE)
              ELSE /\ tasks' = [tasks EXCEPT ![i] = after]
                   /\ UNCHANGED last_batch
    /\ UNCHANGED <<geo_vars, ingest_vars, setup_result,
                   latitude, longitude, self_radius, tracking_mode, self_geohash_overlap,
                   unloading, location_available, disconnect_callbacks, connected,
                   tracker, listening, conn_pc, conn_todo, disc_pc, n_events,
                   n_failures, n_disconnects>>

\* An async_subscribe of a task raises: the task logs the error and ends.
TaskSubscribeRaises(i) ==
    /\ tasks[i].pc = "running"
    /\ n_failures < MaxFailures
    /\ n_failures' = n_failures + 1
    /\ tasks' = RemoveAt(tasks, i)
    /\ last_batch' = BatchOf(tasks[i], TRUE)
    /\ UNCHANGED <<geo_vars, ingest_vars, setup_result,
                   latitude, longitude, self_radius, tracking_mode, self_geohash_overlap,
                   unloading, location_available, disconnect_callbacks, connected,
                   subscriptions, tracker, listening, conn_pc, conn_todo, disc_pc,
                   n_events, n_disconnects>>

\* async_unload_entry calls disconnect(), which sets unloading and awaits
\* mqtt_client.async_disconnect().
DisconnectCall ==
    /\ conn_pc = "done"
    /\ disc_pc = "idle"
    /\ n_disconnects < MaxDisconnects
    /\ unloading' = TRUE
    /\ disc_pc' = "disconnecting"
    /\ UNCHANGED <<geo_vars, ingest_vars, setup_result,
                   latitude, longitude, self_radius, tracking_mode, self_geohash_overlap,
                   location_available, disconnect_callbacks, connected, subscriptions,
                   tracker, listening, conn_pc, conn_todo, tasks, last_batch, n_events,
                   n_failures, n_disconnects>>

DisconnectKeepsListeners ==
    /\ disc_pc = "disconnecting"
    /\ connected' = FALSE
    /\ disc_pc' = "idle"
    /\ n_disconnects' = n_disconnects + 1
    /\ UNCHANGED <<geo_vars, ingest_vars, setup_result, listening,
                   latitude, longitude, self_radius, tracking_mode, self_geohash_overlap,
                   unloading, location_available, disconnect_callbacks, subscriptions,
                   tracker, conn_pc, conn_todo, tasks, last_batch, n_events,
                   n_failures>>

\* async_disconnect() returns; disconnect() calls every callback of
\* _disconnect_callbacks and returns.
DisconnectReturns ==
    /\ disc_pc = "disconnecting"
    /\ connected' = FALSE
    /\ listening' = listening \ { disconnect_callbacks[k] : k \in DOMAIN disconnect_callbacks }
    /\ disc_pc' = "idle"
    /\ n_disconnects' = n_disconnects + 1
    /\ UNCHANGED <<geo_vars, ingest_vars, setup_result,
                   latitude, longitude, self_radius, tracking_mode, self_geohash_overlap,
                   unloading, location_available, disconnect_callbacks, subscriptions,
                   tracker, conn_pc, conn_todo, tasks, last_batch, n_events,
                   n_failures>>

\* time_window_seconds: off, or one unit of the clock
TimeWindows == {0, 1}

is_inactive_unguarded == (now - last_time) >= time_window_seconds

\* is_inactive: bool(self.time_window_seconds and
\* (time.time() - self.last_time) >= self.time_window_seconds)
is_inactive ==
    /\ time_window_seconds # 0
    /\ (now - last_time) >= time_window_seconds

\* The value None of _attr_native_value.
None == -1

\* The sensor classes of the platform, and the class of a sensor whose
\* update_lightning and tick are those of BlitzortungSensor.
LightningSensors == {"distance", "azimuth", "counter"}

\* INITIAL_STATE of a sensor class.
INITIAL_STATE(klass) == IF klass = "counter" THEN 0 ELSE None

tick_whenever(entity) ==
    IF entity.klass \in LightningSensors
         /\ entity.native_value # INITIAL_STATE(entity.klass)
    THEN [entity EXCEPT !.native_value = INITIAL_STATE(entity.klass)]
    ELSE entity

\* tick of the entity's class: LightningSensor.tick resets a value that is
\* not the initial one when the coordinator is inactive; BlitzortungSensor.tick
\* does nothing.
tick(entity) ==
    IF entity.klass \in LightningSensors
         /\ entity.native_value # INITIAL_STATE(entity.klass)
         /\ is_inactive
    THEN [entity EXCEPT !.native_value = INITIAL_STATE(entity.klass)]
    ELSE entity

\* The interval listener that connect() registered fires: _tick calls every
\* on_tick callback, each of which is the tick of a registered sensor.
Tick ==
    /\ "tick" \in listening
    /\ entities' = [id \in DOMAIN entities |-> tick(entities[id])]
    /\ UNCHANGED <<geo_vars, coord_vars, enable_geocoding, last_time, callbacks,
                   lightning_callbacks, sensors, pending, time_window_seconds,
                   server_stats, now, registered, invoked, last_msg, last_topic,
                   last_payload, escaped, n_msgs, last_handler, n_signals,
                   enrichment>>

Next ==
    \/ ConnectCall
    \/ ConnectRaises
    \/ \E now_connected \in BOOLEAN : ConnectContinues(now_connected)
    \/ TransportConnected
    \/ ConnectSubscribes
    \/ ConnectSubscribeRaises
    \/ ConnectLoopEnds
    \/ ConnectReturns
    \/ \E new_state \in TrackerStates : DeviceTrackerStateChanged(new_state)
    \/ \E i \in DOMAIN tasks : TaskStarts(i)
    \/ \E i \in DOMAIN tasks : TaskSubscribes(i)
    \/ \E i \in DOMAIN tasks : TaskSubscribeRaises(i)
    \/ DisconnectCall
    \/ DisconnectReturns
    \/ Tick

(***************************************************************************)
(* The strike pipeline: on_mqtt_message and its listeners.                 *)
(***************************************************************************)
Strike(lat, lon) == [lat |-> lat, lon |-> lon]

\* Strikes north of Home at 49.9, 50.0 and 50.1 km, and one north of Far,
\* beyond the tiles that cover Home.
Strikes ==
    { Strike(50449, 10000), Strike(50450, 10000), Strike(50451, 10000),
      Strike(50700, 10000) }

\* What a message on a strike topic carries: a strike, bytes that are no
\* JSON, or a JSON object without lat and lon.
Payloads == {"strike", "not_json", "no_latlon"}

ListenerKinds == {"message", "lightning", "sensor"}

MaxListeners == 2
MaxMessages == 2
MaxTime == 2

\* The publisher (ws_client): the topic of a strike is blitzortung/1.1/ and
\* one level per character of its 12-character geohash.
StrikeTopic(strike) ==
    <<"blitzortung", "1.1">>
        \o [i \in 1..12 |-> Base32[encode(strike.lat, strike.lon, 12)[i] + 1]]

\* The topics of the strikes of this model, computed once.
StrikeTopicTable == [strike \in Strikes |-> StrikeTopic(strike)]

\* MQTT matching of a topic filter that is literal but for a trailing "#".
TopicMatches(filter, topic) ==
    IF filter[Len(filter)] = "#"
    THEN /\ Len(topic) >= Len(filter) - 1
         /\ SubSeq(topic, 1, Len(filter) - 1) = SubSeq(filter, 1, Len(filter) - 1)
    ELSE filter = topic

\* The broker delivers a message on `topic` to the client.
Delivered(topic) ==
    /\ connected
    /\ \E filter \in BagToSet(subscriptions) : TopicMatches(filter, topic)

RECURSIVE isqrt_between(_, _, _)
\* The largest r in lo..hi with r * r <= n (lo * lo <= n).
isqrt_between(lo, hi, n) ==
    IF lo = hi THEN lo
    ELSE LET mid == (lo + hi + 1) \div 2
         IN  IF mid * mid <= n THEN isqrt_between(mid, hi, n)
             ELSE isqrt_between(lo, mid - 1, n)

isqrt(n) == isqrt_between(0, 46340, n)

earth_radius == 6371

\* cos and sin of a whole number of degrees, * 10000
cosd(a) ==
    LET b == a % 360
    IN  IF b <= 90 THEN CosTable[b + 1]
        ELSE IF b <= 180 THEN -CosTable[180 - b + 1]
        ELSE IF b <= 270 THEN -CosTable[b - 180 + 1]
        ELSE CosTable[360 - b + 1]

sind(a) == cosd(a + 270)

RECURSIVE nearest_degree(_, _, _, _)
\* The whole degree in lo..hi whose direction is nearest to that of (dx, dy):
\* the one on which (dx, dy) projects longest, the first of them when
\* several do.
nearest_degree(dx, dy, lo, hi) ==
    IF lo = hi THEN lo
    ELSE LET mid == (lo + hi) \div 2
             a == nearest_degree(dx, dy, lo, mid)
             b == nearest_degree(dx, dy, mid + 1, hi)
         IN  IF dx * sind(b) + dy * cosd(b) > dx * sind(a) + dy * cosd(a)
             THEN b ELSE a

atan2_degrees_of_any(dx, dy) == nearest_degree(dx, dy, -179, 180)

\* round(math.atan2(dx, dy) * 180 / math.pi): a whole degree in -179..180,
\* and 0 for atan2(0, 0).
atan2_degrees(dx, dy) ==
    IF dx = 0 /\ dy = 0 THEN 0 ELSE nearest_degree(dx, dy, -179, 180)

azimuth_signed(dx, dy) == atan2_degrees(dx, dy)

\* round(math.atan2(dx, dy) * 180 / math.pi) % 360
azimuth_of(dx, dy) == atan2_degrees(dx, dy) % 360

\* The arithmetic of compute_polar_coords for an observer at (lat0, lon0):
\* the distance in tenths of a kilometre and the azimuth in degrees.  dx and
\* dy are in tenths of a millidegree; pi is 355/113.
polar_coords(lat0, lon0, lightning) ==
    LET dy == (lightning.lat - lat0) * 10
        dlon == lightning.lon - lon0
        dx == (IF dlon < 0 THEN -1 ELSE 1) * ((Abs(dlon) * cos(lat0) + 500) \div 1000)
        tenth_mdeg == isqrt(dx * dx + dy * dy)
        metres_e1 == ((((tenth_mdeg * earth_radius) \div 180) * 355) \div 113)
    IN  [distance |-> (metres_e1 + 500) \div 1000, azimuth |-> azimuth_of(dx, dy)]

(***************************************************************************)
(* Polar runs: compute_polar_coords applied once to an observer and a      *)
(* strike.  The observers lie on both hemispheres and up to 80 degrees of  *)
(* latitude; the strikes lie at the observer, due north, east, south and   *)
(* west of it, next to due west, and up to two degrees away on the         *)
(* diagonals.                                                              *)
(***************************************************************************)
PolarLats == {-60000, 0, 50000, 80000}
PolarLons == {-170000, 0, 10000, 179000}
PolarOffsets ==
    { <<0, 0>>, <<300, 0>>, <<-300, 0>>, <<0, 300>>, <<0, -300>>, <<2000, 0>>,
      <<1, -300>>, <<-1, -300>>, <<2000, -2000>>, <<-2000, 2000>>,
      <<1000, -1000>>, <<-1000, 1000>> }

PolarInit ==
    /\ \E lat0 \in PolarLats, lon0 \in PolarLons, d \in PolarOffsets :
          p_in = [lat0 |-> lat0, lon0 |-> lon0, lat |-> lat0 + d[1], lon |-> lon0 + d[2]]
    /\ p_out = NoPolar

Measure ==
    /\ p_out = NoPolar
    /\ p_out' = polar_coords(p_in.lat0, p_in.lon0, Strike(p_in.lat, p_in.lon))
    /\ UNCHANGED <<g_in, g_pc, g_out, f_in, f_pc, stack, checked, p_in, m_in, m_out,
                   gc_vars, poll_vars, strike_vars>>

\* The polar coordinates of the strikes of this model, computed once.
PolarTable == [pl \in Places, strike \in Strikes |-> polar_coords(pl.lat, pl.lon, strike)]

compute_polar_coords_initial(lightning) ==
    PolarTable[Home, lightning]

\* compute_polar_coords: relative to self.latitude and self.longitude.
compute_polar_coords(lightning) ==
    PolarTable[Place(latitude, longitude), lightning]

\* lightning[SensorDeviceClass.DISTANCE] < self.radius, the distance in tenths
in_radius_inclusive(distance, radius_km) == distance <= radius_km * 10

in_radius(distance, radius_km) == distance < radius_km * 10

fan_out_sensors_first(lightning) ==
    [k \in 1..Len(sensors) |->
        [listener |-> sensors[k], kind |-> "sensor", strike |-> lightning]]
    \o [k \in 1..Len(lightning_callbacks) |->
        [listener |-> lightning_callbacks[k], kind |-> "lightning", strike |-> lightning]]

\* Whether update_lightning of the class raises: DistanceSensor and
\* AzimuthSensor write self._attrs, an attribute that no class defines.
update_raises(klass) == klass \in {"distance", "azimuth"}

\* update_lightning of the entity's class, up to its end or its raise.
update_lightning(entity, lightning) ==
    IF entity.klass = "distance"
    THEN [entity EXCEPT !.native_value = lightning.distance]
    ELSE IF entity.klass = "azimuth"
    THEN [entity EXCEPT !.native_value = lightning.azimuth]
    ELSE IF entity.klass = "counter"
    THEN [entity EXCEPT !.native_value = entity.native_value + 1]
    ELSE entity

\* The places in self.sensors of the sensors whose update_lightning raises.
raising == { k \in 1..Len(sensors) : update_raises(entities[sensors[k]].klass) }

\* The place in self.sensors at which the loop over the sensors ends.
last_updated ==
    IF raising = {} THEN Len(sensors)
    ELSE CHOOSE k \in raising : \A other \in raising : k <= other

\* The calls of the two for loops that end on_mqtt_message.
fan_out(lightning) ==
    [k \in 1..Len(lightning_callbacks) |->
        [listener |-> lightning_callbacks[k], kind |-> "lightning", strike |-> lightning]]
    \o [k \in 1..last_updated |->
        [listener |-> sensors[k], kind |-> "sensor", strike |-> lightning]]

\* self.sensors' entities after the loop over the sensors.
updated(lightning) ==
    [id \in DOMAIN entities |->
        IF \E k \in 1..last_updated : sensors[k] = id
        THEN update_lightning(entities[id], lightning)
        ELSE entities[id]]

\* A broker statistic, published under $SYS/broker/.
StatsTopic == <<"$SYS", "broker", "uptime">>

is_any_topic(topic) == TRUE

\* message.topic.startswith("blitzortung/1.1")
is_strike_topic(topic) ==
    /\ Len(topic) >= 2
    /\ topic[1] = "blitzortung"
    /\ topic[2] = "1.1"

\* The calls of the first for loop of on_mqtt_message.
message_calls(message) ==
    [k \in 1..Len(callbacks) |->
        [listener |-> callbacks[k], kind |-> "message", strike |-> message]]

NoStrike == [lat |-> 0, lon |-> 0, distance |-> -1, azimuth |-> -1]

NoHandler == [name |-> "none", unloading |-> FALSE, written |-> <<>>]

IngestInit ==
    /\ enable_geocoding \in BOOLEAN
    /\ last_time = 0
    /\ callbacks = <<>>
    /\ lightning_callbacks = <<>>
    /\ sensors = <<>>
    /\ entities = <<>>
    /\ pending = <<>>
    /\ now = 1
    /\ registered = <<>>
    /\ invoked = <<>>
    /\ last_msg = NoStrike
    /\ last_topic = <<>>
    /\ last_payload = "none"
    /\ escaped = FALSE
    /\ time_window_seconds \in TimeWindows
    /\ server_stats \in BOOLEAN
    /\ n_msgs = 0
    /\ last_handler = NoHandler
    /\ n_signals = 0
    /\ enrichment = [geocode |-> "none", area |-> "none"]

\* register_message_receiver, register_lightning_receiver, register_sensor:
\* a new listener, named by its place in the registration order; `klass` is
\* the class of the entity when the listener is a sensor.
RegisterEntity(kind, klass) ==
    /\ Len(registered) < MaxListeners
    /\ LET id == Len(registered) + 1
       IN  /\ registered' = Append(registered, [listener |-> id, kind |-> kind])
           /\ entities' = Append(entities, [klass |-> klass,
                                            native_value |-> INITIAL_STATE(klass)])
           /\ callbacks' = IF kind = "message" THEN Append(callbacks, id) ELSE callbacks
           /\ lightning_callbacks' =
                 IF kind = "lightning" THEN Append(lightning_callbacks, id)
                 ELSE lightning_callbacks
           /\ sensors' = IF kind = "sensor" THEN Append(sensors, id) ELSE sensors
    /\ UNCHANGED <<geo_vars, coord_vars, enable_geocoding, last_time, pending, now,
                   time_window_seconds, server_stats, invoked, last_msg, last_topic,
                   last_payload, escaped, n_msgs, last_handler, n_signals,
                   enrichment>>

\* A message receiver, a lightning receiver, or a sensor that takes
\* update_lightning and tick from BlitzortungSensor (a ServerStatSensor).
Register(kind) ==
    RegisterEntity(kind, IF kind = "sensor" THEN "plain" ELSE "none")

\* async_added_to_hass of one of the three sensors that the platform's
\* async_setup_entry creates: register_sensor(self).
AddedToHass(klass) ==
    /\ \A id \in DOMAIN entities : entities[id].klass # klass
    /\ RegisterEntity("sensor", klass)

\* on_mqtt_message for a message the broker delivers on `topic`, up to its
\* end or to the await of reverse_geocode; `strike` is what the payload says
\* when it is a strike.  A payload on a strike topic that json_loads_object
\* refuses, or one in which compute_polar_coords finds no lat or lon, raises
\* out of the handler after the message receivers ran.  On any other topic
\* the handler ends after the message receivers.
OnMqttMessage(topic, strike, payload) ==
    /\ n_msgs < MaxMessages
    /\ Delivered(topic)
    /\ n_msgs' = n_msgs + 1
    /\ last_topic' = topic
    /\ last_payload' = payload
    /\ IF ~is_strike_topic(topic)
       THEN /\ escaped' = FALSE
            /\ invoked' = message_calls(strike)
            /\ UNCHANGED <<last_msg, last_time, pending, entities, enrichment>>
       ELSE IF payload = "strike"
       THEN LET polar == compute_polar_coords(strike)
                lightning == [lat |-> strike.lat, lon |-> strike.lon,
                              distance |-> polar.distance, azimuth |-> polar.azimuth]
            IN  /\ last_msg' = lightning
                /\ IF in_radius(polar.distance, self_radius)
                   THEN IF enable_geocoding
                        THEN /\ pending' = Append(pending, lightning)
                             /\ invoked' = message_calls(strike)
                             /\ escaped' = FALSE
                             /\ UNCHANGED <<last_time, entities, enrichment>>
                        ELSE /\ last_time' = now
                             /\ enrichment' = [geocode |-> "off",
                                               area |-> "Geocoding Disabled"]
                             /\ invoked' = message_calls(strike) \o fan_out(lightning)
                             /\ entities' = updated(lightning)
                             /\ escaped' = (raising # {})
                             /\ UNCHANGED pending
                   ELSE /\ invoked' = message_calls(strike)
                        /\ escaped' = FALSE
                        /\ UNCHANGED <<last_time, pending, entities, enrichment>>
       ELSE /\ escaped' = TRUE
            /\ invoked' = message_calls(strike)
            /\ UNCHANGED <<last_msg, last_time, pending, entities, enrichment>>
    /\ UNCHANGED <<geo_vars, coord_vars, enable_geocoding, callbacks,
                   lightning_callbacks, sensors, time_window_seconds, server_stats, now,
                   registered, last_handler, n_signals>>

\* How the await of reverse_geocode ends: it returns location_info (from the
\* cache or from a 200 response), it returns None (any other status, a
\* timeout, a client error or another exception, all caught inside), or it
\* raises.
GeocodeOutcomes == {"found", "nothing", "raised"}

\* lightning["area"] after the try statement of on_mqtt_message.
area_of(outcome) ==
    IF outcome = "found" THEN "area_description"
    ELSE IF outcome = "nothing" THEN "Unknown"
    ELSE "Geocoding Failed"

\* The await of reverse_geocode ends: the suspended on_mqtt_message sets the
\* area and runs to its end.
GeocodeReturns(i, outcome) ==
    /\ enrichment' = [geocode |-> outcome, area |-> area_of(outcome)]
    /\ last_time' = now
    /\ invoked' = fan_out(pending[i])
    /\ entities' = updated(pending[i])
    /\ pending' = RemoveAt(pending, i)
    /\ escaped' = (raising # {})
    /\ UNCHANGED <<geo_vars, coord_vars, enable_geocoding, callbacks,
                   lightning_callbacks, sensors, time_window_seconds, server_stats, now,
                   registered, last_msg, last_topic, last_payload, n_msgs, last_handler,
                   n_signals>>

\* The clock advances.
TimePasses ==
    /\ now < MaxTime
    /\ now' = now + 1
    /\ UNCHANGED <<geo_vars, coord_vars, enable_geocoding, last_time, callbacks,
                   lightning_callbacks, sensors, entities, pending, time_window_seconds,
                   server_stats, registered, invoked, last_msg, last_topic, last_payload,
                   escaped, n_msgs, last_handler, n_signals,
                   enrichment>>

(***************************************************************************)
(* geocoding_utils.py: GeocodingService.reverse_geocode.  Rounded          *)
(* coordinates are numbered; the clock counts seconds.                     *)
(***************************************************************************)
_max_cache_size == 500
_min_request_interval == 1

MaxLookups == 3

\* A cache that holds the results of n lookups, the oldest first.
Filled(n) == [k \in 1..n |-> k]

Keys(seq) == { seq[k] : k \in DOMAIN seq }

_add_to_cache_unbounded(cache, coords) ==
    IF coords \in Keys(cache) THEN cache ELSE Append(cache, coords)

\* _add_to_cache: a full cache loses its oldest key; the key is then set,
\* which appends it unless the dict still holds it.
_add_to_cache(cache, coords) ==
    LET kept == IF Len(cache) >= _max_cache_size THEN Tail(cache) ELSE cache
    IN  IF coords \in Keys(kept) THEN kept ELSE Append(kept, coords)

\* reverse_geocode is called: a cached result is returned at once; otherwise
\* the call sleeps for what is left of the interval since
\* _last_request_time, or sends its request at once.
ReverseGeocode(coords) ==
    /\ n_lookups < MaxLookups
    /\ n_lookups' = n_lookups + 1
    /\ IF coords \in Keys(_geocoding_cache)
       THEN UNCHANGED <<geocodes, requests>>
       ELSE LET time_since_last == now - _last_request_time
            IN  IF time_since_last < _min_request_interval
                THEN /\ geocodes' = Append(geocodes,
                            [coords |-> coords, pc |-> "sleeping",
                             wake |-> now + (_min_request_interval - time_since_last)])
                     /\ UNCHANGED requests
                ELSE /\ geocodes' = Append(geocodes,
                            [coords |-> coords, pc |-> "requesting", wake |-> now])
                     /\ requests' = Append(requests, now)
    /\ UNCHANGED <<_geocoding_cache, _last_request_time>>
    /\ UNCHANGED <<g_in, g_pc, g_out, f_in, f_pc, stack, checked, p_in, p_out, m_in, m_out,
                   poll_vars, strike_vars>>
    /\ UNCHANGED <<coord_vars, ingest_vars>>

\* asyncio.sleep returns, not before its time: the call sends its request.
SleepEnds(i) ==
    /\ geocodes[i].pc = "sleeping"
    /\ now >= geocodes[i].wake
    /\ geocodes' = [geocodes EXCEPT ![i].pc = "requesting"]
    /\ requests' = Append(requests, now)
    /\ UNCHANGED <<_geocoding_cache, _last_request_time, n_lookups>>
    /\ UNCHANGED <<g_in, g_pc, g_out, f_in, f_pc, stack, checked, p_in, p_out, m_in, m_out,
                   poll_vars, strike_vars>>
    /\ UNCHANGED <<coord_vars, ingest_vars>>

\* How a request ends: a 200 response that is parsed and cached, a response
\* with another status, or no response (timeout, client error).
Responses == {"ok", "status", "error"}

\* The request of a call ends and the call returns: a response sets
\* _last_request_time, and a 200 response adds its result to the cache.
RequestEnds(i, response) ==
    /\ geocodes[i].pc = "requesting"
    /\ geocodes' = RemoveAt(geocodes, i)
    /\ _last_request_time' = IF response = "error" THEN _last_request_time ELSE now
    /\ _geocoding_cache' =
          IF response = "ok" THEN _add_to_cache(_geocoding_cache, geocodes[i].coords)
          ELSE _geocoding_cache
    /\ UNCHANGED <<requests, n_lookups>>
    /\ UNCHANGED <<g_in, g_pc, g_out, f_in, f_pc, stack, checked, p_in, p_out, m_in, m_out,
                   poll_vars, strike_vars>>
    /\ UNCHANGED <<coord_vars, ingest_vars>>

(***************************************************************************)
(* src/__init__.py: BlitzortungDataUpdateCoordinator._async_update_data.   *)
(* A response is the sequence of its lines, the newest strike first as the *)
(* server sends them or in any other order; a line that parses carries the *)
(* strike's time and the distance compute_polar_coords finds for it.       *)
(***************************************************************************)
MaxStamp == 3
MaxLines == 2
MaxRefreshes == 4

\* self.radius, in tenths of a kilometre.
poll_radius == 500

\* A line that json.loads rejects, or that has no "time".
BadLine == [ok |-> FALSE, time |-> 0, distance |-> 0]

PollLines ==
    [ok : {TRUE}, time : 0..MaxStamp, distance : {poll_radius, poll_radius + 1}]
        \cup {BadLine}

PollResponses == UNION { [1..n -> PollLines] : n \in 0..MaxLines }

\* How the GET ends: an exception (timeout included), a status other than
\* 200, or status 200.
PollStatuses == {"exception", "other", "200"}

RECURSIVE read_lines_all(_, _, _, _)
read_lines_all(lines, self_last_time, last_time_, latest) ==
    IF lines = <<>>
    THEN [raised |-> FALSE, last_time |-> last_time_, latest |-> latest]
    ELSE LET data == Head(lines)
         IN  IF ~data.ok
             THEN [raised |-> TRUE, last_time |-> last_time_, latest |-> latest]
             ELSE read_lines_all(Tail(lines), self_last_time,
                                 IF data.time > last_time_ THEN data.time ELSE last_time_,
                                 IF data.distance <= poll_radius
                                 THEN Append(latest, data) ELSE latest)

\* The while loop of _async_update_data: it ends at the end of the response
\* or at the first line that is not newer than self.last_time, and it is
\* left by the exception of a line that does not parse.
RECURSIVE read_lines(_, _, _, _)
read_lines(lines, self_last_time, last_time_, latest) ==
    IF lines = <<>>
    THEN [raised |-> FALSE, last_time |-> last_time_, latest |-> latest]
    ELSE LET data == Head(lines)
         IN  IF ~data.ok
             THEN [raised |-> TRUE, last_time |-> last_time_, latest |-> latest]
             ELSE IF data.time <= self_last_time
             THEN [raised |-> FALSE, last_time |-> last_time_, latest |-> latest]
             ELSE read_lines(Tail(lines), self_last_time,
                             IF data.time > last_time_ THEN data.time ELSE last_time_,
                             IF data.distance <= poll_radius
                             THEN Append(latest, data) ELSE latest)

\* One refresh, from the GET to the return or the exception.
AsyncUpdateData(status, lines) ==
    /\ n_refreshes < MaxRefreshes
    /\ status # "200" => lines = <<>>
    /\ n_refreshes' = n_refreshes + 1
    /\ returned_before' =
          returned_before \cup { refreshed.returned[i] : i \in DOMAIN refreshed.returned }
    /\ LET initial == poll_last_time = 0
           read == read_lines(lines, poll_last_time, poll_last_time, <<>>)
       IN  IF status # "200"
           THEN /\ host_nr' = (host_nr + 1) % 3
                /\ refreshed' = [outcome |-> "failed", before |-> poll_last_time,
                                 returned |-> <<>>]
                /\ UNCHANGED poll_last_time
           ELSE IF read.raised
           THEN /\ refreshed' = [outcome |-> "failed", before |-> poll_last_time,
                                 returned |-> <<>>]
                /\ UNCHANGED <<host_nr, poll_last_time>>
           ELSE /\ poll_last_time' =
                      IF read.last_time > poll_last_time THEN read.last_time
                      ELSE poll_last_time
                /\ refreshed' = [outcome |-> "ok", before |-> poll_last_time,
                                 returned |-> IF initial THEN <<>> ELSE read.latest]
                /\ UNCHANGED host_nr
    /\ UNCHANGED <<g_in, g_pc, g_out, f_in, f_pc, stack, checked, p_in, p_out, m_in, m_out,
                   gc_vars, strike_vars>>
    /\ UNCHANGED <<coord_vars, ingest_vars>>

\* The polling coordinator on its own, from its construction on.
PollInit ==
    /\ GeoIdle
    /\ Init
    /\ tracking_mode = "static"
    /\ IngestInit
    /\ enable_geocoding = FALSE
    /\ time_window_seconds = 0
    /\ server_stats = FALSE

NextPoll ==
    \E status \in PollStatuses, lines \in PollResponses : AsyncUpdateData(status, lines)

SpecPoll == PollInit /\ [][NextPoll]_vars

(***************************************************************************)
(* geo_location.py: Strikes, the list of BlitzortungEventManager.  An item *)
(* is an event with its publication date, in whole seconds, and a mark     *)
(* that tells events of one date apart.                                    *)
(***************************************************************************)
MaxDate == 3
MaxCalls == 4

StrikeEvents == [_publication_date : 0..MaxDate, mark : {1, 2}]

\* The arguments of cleanup: time.time() - window_seconds.
CleanupKeys == -1..MaxDate

\* bisect.bisect_right(a, x), indices counted from 0 as in the code.
RECURSIVE bisect_loop(_, _, _, _)
bisect_loop(a, x, lo, hi) ==
    IF lo < hi
    THEN LET mid == (lo + hi) \div 2
         IN  IF x < a[mid + 1] THEN bisect_loop(a, x, lo, mid)
             ELSE bisect_loop(a, x, mid + 1, hi)
    ELSE lo

bisect_right(a, x) == bisect_loop(a, x, 0, Len(a))

\* list.insert(i, x), i counted from 0.
list_insert(a, i, x) == SubSeq(a, 1, i) \o <<x>> \o SubSeq(a, i + 1, Len(a))

_key_fn(strike) == strike._publication_date

insort_append(self, item) ==
    LET k == _key_fn(item)
    IN  [items |-> Append(self.items, item),
         _keys |-> Append(self._keys, k),
         _max_key |-> IF k > self._max_key THEN k ELSE self._max_key]

\* Strikes.insort: an item newer than every item seen is appended, any other
\* is inserted where bisect_right puts its key.
insort(self, item) ==
    LET k == _key_fn(item)
    IN  IF k > self._max_key
        THEN [items |-> Append(self.items, item),
              _keys |-> Append(self._keys, k),
              _max_key |-> k]
        ELSE LET i == bisect_right(self._keys, k)
             IN  [items |-> list_insert(self.items, i, item),
                  _keys |-> list_insert(self._keys, i, k),
                  _max_key |-> self._max_key]

\* Strikes.cleanup: the first i items and keys are cut off and the items
\* returned; nothing changes when i is 0.
cleanup(self, k) ==
    LET i == bisect_right(self._keys, k)
    IN  IF i # 0
        THEN [items |-> SubSeq(self.items, i + 1, Len(self.items)),
              _keys |-> SubSeq(self._keys, i + 1, Len(self._keys)),
              _max_key |-> self._max_key,
              to_delete |-> SubSeq(self.items, 1, i)]
        ELSE [items |-> self.items, _keys |-> self._keys, _max_key |-> self._max_key,
              to_delete |-> <<>>]

TheStrikes == [items |-> _strikes, _keys |-> _keys, _max_key |-> _max_key]

\* lightning_cb: self._strikes.insort(event).
Insort(item) ==
    /\ n_calls < MaxCalls
    /\ n_calls' = n_calls + 1
    /\ LET after == insort(TheStrikes, item)
       IN  /\ _strikes' = after.items
           /\ _keys' = after._keys
           /\ _max_key' = after._max_key
    /\ cleaned' = [op |-> "insort", k |-> _key_fn(item), returned |-> <<>>]
    /\ UNCHANGED <<g_in, g_pc, g_out, f_in, f_pc, stack, checked, p_in, p_out, m_in, m_out,
                   gc_vars, poll_vars>>
    /\ UNCHANGED <<coord_vars, ingest_vars>>

\* async_update: to_delete = self._strikes.cleanup(time.time() - window).
Cleanup(k) ==
    /\ n_calls < MaxCalls
    /\ n_calls' = n_calls + 1
    /\ LET after == cleanup(TheStrikes, k)
       IN  /\ _strikes' = after.items
           /\ _keys' = after._keys
           /\ _max_key' = after._max_key
           /\ cleaned' = [op |-> "cleanup", k |-> k, returned |-> after.to_delete]
    /\ UNCHANGED <<g_in, g_pc, g_out, f_in, f_pc, stack, checked, p_in, p_out, m_in, m_out,
                   gc_vars, poll_vars>>
    /\ UNCHANGED <<coord_vars, ingest_vars>>

\* The Strikes list on its own, from its construction on.
StrikesInit ==
    /\ GeoIdle
    /\ Init
    /\ tracking_mode = "static"
    /\ IngestInit
    /\ enable_geocoding = FALSE
    /\ time_window_seconds = 0
    /\ server_stats = FALSE

NextStrikes ==
    \/ \E item \in StrikeEvents : Insort(item)
    \/ \E k \in CleanupKeys : Cleanup(k)

SpecStrikes == StrikesInit /\ [][NextStrikes]_vars

(***************************************************************************)
(* Specifications                                                          *)
(***************************************************************************)
\* The coordinator from its construction on, in either mode: connect(),
\* tracker state changes, resubscription tasks, disconnect(); no strike arrives.
CoordinatorInit ==
    /\ Init
    /\ GeoIdle
    /\ IngestInit
    /\ enable_geocoding = FALSE
    /\ time_window_seconds = 0
    /\ server_stats = FALSE

Spec == CoordinatorInit /\ [][Next]_vars

\* One call of geohash_overlap, beside a coordinator that is left alone.
SolverInit ==
    /\ GeoInit
    /\ Init
    /\ tracking_mode = "static"
    /\ IngestInit
    /\ enable_geocoding = FALSE
    /\ time_window_seconds = 0
    /\ server_stats = FALSE

GeoNext == Solve /\ UNCHANGED <<coord_vars, ingest_vars>>

SpecGeo == SolverInit /\ [][GeoNext]_vars

\* compute_geohash_tiles on its own, call by call.
TilesRunInit ==
    /\ g_in = [lat |-> 0, lon |-> 0, radius |-> 0] /\ g_pc = "off" /\ g_out = {}
    /\ TilesInit
    /\ PolarIdle
    /\ MigrateIdle
    /\ GeocoderIdle
    /\ PollIdle
    /\ StrikesIdle
    /\ Init
    /\ tracking_mode = "static"
    /\ IngestInit
    /\ enable_geocoding = FALSE
    /\ time_window_seconds = 0
    /\ server_stats = FALSE

TilesNext == Tiles

SpecTiles == TilesRunInit /\ [][TilesNext]_vars

\* compute_geohash_tiles on its own, one round of its loop at a time.
LoopRunInit ==
    /\ g_in = [lat |-> 0, lon |-> 0, radius |-> 0] /\ g_pc = "off" /\ g_out = {}
    /\ LoopInit
    /\ PolarIdle
    /\ MigrateIdle
    /\ GeocoderIdle
    /\ PollIdle
    /\ StrikesIdle
    /\ Init
    /\ tracking_mode = "static"
    /\ IngestInit
    /\ enable_geocoding = FALSE
    /\ time_window_seconds = 0
    /\ server_stats = FALSE

LoopNext ==
    \/ TilesCall
    \/ \E current \in stack : TilesPop(current)
    \/ TilesReturn

SpecLoop == LoopRunInit /\ [][LoopNext]_vars

\* The loop is not suspended: it is synchronous code that runs to its end.
SpecLoopFair == SpecLoop /\ WF_vars(LoopNext)

\* The geocoding service on its own, from an empty cache: lookups of two
\* places start, sleep, send and end while the clock advances.
GeocoderInit ==
    /\ g_in = [lat |-> 0, lon |-> 0, radius |-> 0] /\ g_pc = "off" /\ g_out = {}
    /\ TilesIdle
    /\ PolarIdle
    /\ MigrateIdle
    /\ GeocoderIdle
    /\ PollIdle
    /\ StrikesIdle
    /\ Init
    /\ tracking_mode = "static"
    /\ IngestInit
    /\ enable_geocoding = TRUE
    /\ time_window_seconds = 0
    /\ server_stats = FALSE

NextGeocoder ==
    \/ \E coords \in {1, 2} : ReverseGeocode(coords)
    \/ \E i \in DOMAIN geocodes : SleepEnds(i)
    \/ \E i \in DOMAIN geocodes, response \in Responses : RequestEnds(i, response)
    \/ TimePasses

SpecGeocoder == GeocoderInit /\ [][NextGeocoder]_vars

\* The geocoding service on its own, from a cache that earlier lookups have
\* filled to its limit or to one or two below: lookups of the oldest places,
\* the newest and places not seen before.
FilledInit ==
    /\ g_in = [lat |-> 0, lon |-> 0, radius |-> 0] /\ g_pc = "off" /\ g_out = {}
    /\ TilesIdle
    /\ PolarIdle
    /\ MigrateIdle
    /\ _geocoding_cache \in { Filled(n) : n \in (_max_cache_size - 2).._max_cache_size }
    /\ _last_request_time = 0
    /\ geocodes = <<>>
    /\ requests = <<>>
    /\ n_lookups = 0
    /\ PollIdle
    /\ StrikesIdle
    /\ Init
    /\ tracking_mode = "static"
    /\ IngestInit
    /\ enable_geocoding = TRUE
    /\ time_window_seconds = 0
    /\ server_stats = FALSE

NextCache ==
    \/ \E coords \in {1, 2, _max_cache_size, _max_cache_size + 1, _max_cache_size + 2} :
           ReverseGeocode(coords)
    \/ \E i \in DOMAIN geocodes : SleepEnds(i)
    \/ \E i \in DOMAIN geocodes, response \in Responses : RequestEnds(i, response)
    \/ TimePasses

SpecCache == FilledInit /\ [][NextCache]_vars

(***************************************************************************)
(* async_migrate_entry                                                     *)
(***************************************************************************)
\* hass.config.latitude and hass.config.longitude
HassLocation == Place(52000, 5000)

MigrateCoordinates == {Place(50000, 10000), Place(52100, 4300), Place(-33900, 151200),
                       Place(0, 0)}

\* The entries a version of the integration wrote: version 1 keeps the
\* coordinates in its data, versions 2 to 4 in its options (or nowhere),
\* version 5 in its data again (or, with a location entity, nowhere).
MigrateEntries ==
    { ConfigEntry(1, at, FALSE, Absent, "absent", FALSE) : at \in MigrateCoordinates }
    \cup { ConfigEntry(2, Absent, FALSE, at, "absent", geocoding) :
              at \in MigrateCoordinates \cup {Absent}, geocoding \in BOOLEAN }
    \cup { ConfigEntry(3, Absent, FALSE, at, "idle_reset_timeout", geocoding) :
              at \in MigrateCoordinates \cup {Absent}, geocoding \in BOOLEAN }
    \cup { ConfigEntry(4, Absent, FALSE, at, "time_window", geocoding) :
              at \in MigrateCoordinates \cup {Absent}, geocoding \in BOOLEAN }
    \cup { ConfigEntry(5, at, entity, Absent, "time_window", geocoding) :
              at \in MigrateCoordinates \cup {Absent}, entity \in BOOLEAN,
              geocoding \in BOOLEAN }

\* if entry.version == 1: the coordinates move from the data to the options.
migrate_1(entry) ==
    IF entry.version = 1
    THEN [entry EXCEPT !.options_latlon = entry.data_latlon, !.data_latlon = Absent,
                       !.version = 2]
    ELSE entry

\* if entry.version == 2: options[CONF_IDLE_RESET_TIMEOUT] is set.
migrate_2(entry) ==
    IF entry.version = 2
    THEN [entry EXCEPT !.time_option = "idle_reset_timeout", !.version = 3]
    ELSE entry

\* if entry.version == 3: the idle reset timeout becomes the time window.
migrate_3(entry) ==
    IF entry.version = 3
    THEN [entry EXCEPT !.time_option = "time_window", !.version = 4]
    ELSE entry

\* if entry.version == 4: the coordinates move to the data, the Home Assistant
\* location standing in for missing ones; the options are built anew, with
\* the geocoding option only when the old options had none.
migrate_4(entry) ==
    IF entry.version = 4
    THEN [entry EXCEPT !.data_latlon = IF entry.options_latlon = Absent THEN HassLocation
                                       ELSE entry.options_latlon,
                       !.options_latlon = Absent,
                       !.time_option = "time_window",
                       !.enable_geocoding = ~entry.enable_geocoding,
                       !.version = 5]
    ELSE entry

\* async_migrate_entry: the entry when the function returns True.  The step
\* from version 4 is the last one; an entry of version 5 passes every test
\* and is returned as it came.
async_migrate_entry(entry) == migrate_4(migrate_3(migrate_2(migrate_1(entry))))

MigrateInit ==
    /\ m_in \in MigrateEntries
    /\ m_out = NoEntry

Migrate ==
    /\ m_out = NoEntry
    /\ m_out' = async_migrate_entry(m_in)
    /\ UNCHANGED <<g_in, g_pc, g_out, f_in, f_pc, stack, checked, p_in, p_out, m_in,
                   gc_vars, poll_vars, strike_vars>>

MigrationInit ==
    /\ g_in = [lat |-> 0, lon |-> 0, radius |-> 0] /\ g_pc = "off" /\ g_out = {}
    /\ TilesIdle
    /\ PolarIdle
    /\ MigrateInit
    /\ GeocoderIdle
    /\ PollIdle
    /\ StrikesIdle
    /\ Init
    /\ tracking_mode = "static"
    /\ IngestInit
    /\ enable_geocoding = FALSE
    /\ time_window_seconds = 0
    /\ server_stats = FALSE

MigrateNext == Migrate /\ UNCHANGED <<coord_vars, ingest_vars>>

SpecMigrate == MigrationInit /\ [][MigrateNext]_vars

\* compute_polar_coords on its own.
MeasureInit ==
    /\ g_in = [lat |-> 0, lon |-> 0, radius |-> 0] /\ g_pc = "off" /\ g_out = {}
    /\ TilesIdle
    /\ PolarInit
    /\ MigrateIdle
    /\ GeocoderIdle
    /\ PollIdle
    /\ StrikesIdle
    /\ Init
    /\ tracking_mode = "static"
    /\ IngestInit
    /\ enable_geocoding = FALSE
    /\ time_window_seconds = 0
    /\ server_stats = FALSE

PolarNext == Measure /\ UNCHANGED <<coord_vars, ingest_vars>>

SpecPolar == MeasureInit /\ [][PolarNext]_vars

\* A coordinator in static mode from its construction on: listeners register,
\* connect() subscribes, strike messages arrive, time passes, disconnect().
NextIngest ==
    \/ ConnectCall
    \/ ConnectRaises
    \/ \E now_connected \in BOOLEAN : ConnectContinues(now_connected)
    \/ TransportConnected
    \/ ConnectSubscribes
    \/ ConnectSubscribeRaises
    \/ ConnectLoopEnds
    \/ ConnectReturns
    \/ DisconnectCall
    \/ DisconnectReturns
    \/ \E kind \in ListenerKinds : Register(kind)
    \/ \E strike \in Strikes, payload \in Payloads :
           OnMqttMessage(StrikeTopicTable[strike], strike, payload)
    \/ \E i \in DOMAIN pending, outcome \in GeocodeOutcomes : GeocodeReturns(i, outcome)
    \/ TimePasses

StaticInit ==
    /\ Init
    /\ tracking_mode = "static"
    /\ GeoIdle
    /\ IngestInit
    /\ server_stats = FALSE

SpecIngest == StaticInit /\ [][NextIngest]_vars

\* A coordinator that follows a tracked entity while strike messages arrive:
\* connect() subscribes, the entity moves, resubscriptions run, strikes are
\* decoded, time passes.
NextTrack ==
    \/ ConnectCall
    \/ \E now_connected \in BOOLEAN : ConnectContinues(now_connected)
    \/ TransportConnected
    \/ ConnectSubscribes
    \/ ConnectLoopEnds
    \/ ConnectReturns
    \/ \E new_state \in {Home, Far} : DeviceTrackerStateChanged(new_state)
    \/ \E i \in DOMAIN tasks : TaskStarts(i)
    \/ \E i \in DOMAIN tasks : TaskSubscribes(i)
    \/ \E strike \in Strikes : OnMqttMessage(StrikeTopicTable[strike], strike, "strike")
    \/ TimePasses

TrackInit ==
    /\ Init
    /\ tracking_mode = "device_tracker"
    /\ tracker = Home
    /\ GeoIdle
    /\ IngestInit
    /\ enable_geocoding = FALSE
    /\ time_window_seconds = 0
    /\ server_stats = FALSE

SpecTrack == TrackInit /\ [][NextTrack]_vars

\* A coordinator with reverse geocoding on whose tracked entity stays at a
\* point with several strikes in its radius: connect() subscribes, listeners
\* register, strikes arrive, the calls of reverse_geocode return.
NextOrder ==
    \/ ConnectCall
    \/ \E now_connected \in BOOLEAN : ConnectContinues(now_connected)
    \/ TransportConnected
    \/ ConnectSubscribes
    \/ ConnectLoopEnds
    \/ ConnectReturns
    \/ \E kind \in ListenerKinds : Register(kind)
    \/ \E strike \in Strikes : OnMqttMessage(StrikeTopicTable[strike], strike, "strike")
    \/ \E i \in DOMAIN pending, outcome \in GeocodeOutcomes : GeocodeReturns(i, outcome)
    \/ TimePasses

OrderInit ==
    /\ Init
    /\ tracking_mode = "device_tracker"
    /\ tracker = Far
    /\ GeoIdle
    /\ IngestInit
    /\ enable_geocoding = TRUE
    /\ time_window_seconds = 0
    /\ server_stats = FALSE

SpecOrder == OrderInit /\ [][NextOrder]_vars

\* A coordinator in static mode with the sensors of the platform: connect()
\* subscribes and starts the ticks, the sensors are added, strikes arrive,
\* time passes, the interval listener fires.
NextSensor ==
    \/ ConnectCall
    \/ \E now_connected \in BOOLEAN : ConnectContinues(now_connected)
    \/ TransportConnected
    \/ ConnectSubscribes
    \/ ConnectLoopEnds
    \/ ConnectReturns
    \/ \E klass \in LightningSensors : AddedToHass(klass)
    \/ \E strike \in Strikes : OnMqttMessage(StrikeTopicTable[strike], strike, "strike")
    \/ TimePasses
    \/ Tick

SensorInit ==
    /\ Init
    /\ tracking_mode = "static"
    /\ GeoIdle
    /\ IngestInit
    /\ enable_geocoding = FALSE
    /\ server_stats = FALSE

SpecSensor == SensorInit /\ [][NextSensor]_vars

\* A coordinator in tracking mode with sensors, up to and through its
\* unloading: connect(), the sensors are added, the tracked entity moves,
\* connection signals are dispatched, disconnect().
ConnectionSignals == {"mqtt_connected", "mqtt_disconnected"}

NextUnload ==
    \/ ConnectCall
    \/ \E now_connected \in BOOLEAN : ConnectContinues(now_connected)
    \/ TransportConnected
    \/ ConnectSubscribes
    \/ ConnectLoopEnds
    \/ ConnectReturns
    \/ \E klass \in LightningSensors : AddedToHass(klass)
    \/ \E new_state \in {Home, Far, Unavailable} : DeviceTrackerStateChanged(new_state)
    \/ \E signal \in ConnectionSignals : OnConnectionChange(signal)
    \/ \E i \in DOMAIN tasks : TaskStarts(i)
    \/ \E i \in DOMAIN tasks : TaskSubscribes(i)
    \/ DisconnectCall
    \/ DisconnectReturns

UnloadInit ==
    /\ Init
    /\ tracking_mode = "device_tracker"
    /\ tracker = Home
    /\ GeoIdle
    /\ IngestInit
    /\ enable_geocoding = FALSE
    /\ time_window_seconds = 0
    /\ server_stats = FALSE

SpecUnload == UnloadInit /\ [][NextUnload]_vars

\* A coordinator in static mode with reverse geocoding on, the sensors of
\* the platform and other listeners: connect() subscribes, listeners
\* register, strikes arrive, the calls of reverse_geocode end in every way.
NextEnrich ==
    \/ ConnectCall
    \/ \E now_connected \in BOOLEAN : ConnectContinues(now_connected)
    \/ TransportConnected
    \/ ConnectSubscribes
    \/ ConnectLoopEnds
    \/ ConnectReturns
    \/ \E kind \in ListenerKinds : Register(kind)
    \/ \E klass \in LightningSensors : AddedToHass(klass)
    \/ \E strike \in Strikes : OnMqttMessage(StrikeTopicTable[strike], strike, "strike")
    \/ \E i \in DOMAIN pending, outcome \in GeocodeOutcomes : GeocodeReturns(i, outcome)

EnrichInit ==
    /\ Init
    /\ tracking_mode = "static"
    /\ GeoIdle
    /\ IngestInit
    /\ enable_geocoding = TRUE
    /\ time_window_seconds = 0
    /\ server_stats = FALSE

SpecEnrich == EnrichInit /\ [][NextEnrich]_vars

\* A coordinator in static mode with server_stats on: connect() subscribes
\* on_mqtt_message to the tiles and to $SYS/broker/#, listeners register,
\* strikes and broker statistics arrive.
NextStats ==
    \/ ConnectCall
    \/ \E now_connected \in BOOLEAN : ConnectContinues(now_connected)
    \/ TransportConnected
    \/ ConnectSubscribes
    \/ ConnectLoopEnds
    \/ ConnectReturns
    \/ \E kind \in ListenerKinds : Register(kind)
    \/ \E strike \in Strikes, payload \in Payloads :
           \E topic \in {StrikeTopicTable[strike], StatsTopic} :
               OnMqttMessage(topic, strike, payload)
    \/ TimePasses

StatsInit ==
    /\ Init
    /\ tracking_mode = "static"
    /\ GeoIdle
    /\ IngestInit
    /\ enable_geocoding = FALSE
    /\ time_window_seconds = 0
    /\ server_stats = TRUE

SpecStats == StatsInit /\ [][NextStats]_vars



(***************************************************************************)
(* Properties of the tile solver.                                          *)
(***************************************************************************)

\* C1: for every valid centre and every radius > 0, geohash_overlap returns
\* a non-empty set of at most 9 tiles, each of whose bounding boxes overlaps
\* the target box.
C1_NonEmptyWithinBudget ==
    g_pc = "solved" =>
        /\ g_out # {}
        /\ Cardinality(g_out) <= max_tiles
        /\ \A tile \in g_out :
              box_overlap(geohash_bbox(tile), bbox(g_in.lat, g_in.lon, g_in.radius))

(***************************************************************************)
(* Properties of the subscriptions.                                        *)
(***************************************************************************)
CoverageTopics == { TileTopic(tile) : tile \in self_geohash_overlap }

Quiescent ==
    /\ conn_pc = "done"
    /\ disc_pc = "idle"
    /\ tasks = <<>>
    /\ connected
    /\ ~unloading

\* C2: in every quiescent state of a connected coordinator in which no
\* subscribe has failed, the tiles subscribed to are exactly the coverage
\* computed last.
C2_SubscribedIsCoverage ==
    (Quiescent /\ n_failures = 0) => HeldTileTopics = CoverageTopics

\* C3: a resubscription that ends without a failure, from coverage Old to
\* coverage New, has unsubscribed exactly Old \ New and subscribed exactly
\* New \ Old, and has issued nothing for the tiles in both.
C3_ExactDiff ==
    (last_batch.ended /\ ~last_batch.failed) =>
        /\ last_batch.unsubscribed = last_batch.old \ last_batch.new
        /\ last_batch.subscribed = last_batch.new \ last_batch.old

\* A step that takes a state change of the tracked entity to a location
\* within 0.001 degrees of the current one on both axes.
JitterStep ==
    /\ n_events' = n_events + 1
    /\ tracking_mode = "device_tracker"
    /\ tracker'.kind = "location"
    /\ Abs(tracker'.lat - latitude) <= 1
    /\ Abs(tracker'.lon - longitude) <= 1

\* C4: a change of the tracked location of at most 0.001 degrees on both
\* axes leaves latitude, longitude and the coverage as they are, and issues
\* no subscribe and no unsubscribe (now or in a task).
C4_JitterIgnored ==
    [][JitterStep =>
          UNCHANGED <<latitude, longitude, self_geohash_overlap, subscriptions, tasks>>]_vars

\* The tracked entity reported a location other than the current one, within
\* the threshold, and it was ignored.
C4_JitterSeen ==
    /\ n_events > 0
    /\ tracking_mode = "device_tracker"
    /\ tracker.kind = "location"
    /\ <<tracker.lat, tracker.lon>> # <<latitude, longitude>>
    /\ Abs(tracker.lat - latitude) <= 1
    /\ Abs(tracker.lon - longitude) <= 1

\* C7: once connect() has returned and every task it created has ended, with
\* no failure and no later location change, each tile of the coverage has
\* been subscribed to exactly once, and no other tile has.
C7_OneSubscribePerTile ==
    (conn_pc = "done" /\ tasks = <<>> /\ n_events = 0 /\ n_failures = 0) =>
        /\ HeldTileTopics = CoverageTopics
        /\ \A topic \in CoverageTopics : CopiesIn(topic, subscriptions) = 1

\* C8: after each call of disconnect() has returned, no tile subscription
\* is held.
C8_DisconnectReleasesTiles ==
    (n_disconnects >= 1 /\ disc_pc = "idle") => HeldTileTopics = {}

\* C9: at most one resubscription batch is running at any time.
C9_OneBatchAtATime ==
    Cardinality({ i \in DOMAIN tasks : tasks[i].pc = "running" }) <= 1

\* A step that takes a state change of the tracked entity to a location
\* beyond the threshold, while connected and not unloading.
QualifyingStep ==
    /\ n_events' = n_events + 1
    /\ tracking_mode = "device_tracker"
    /\ tracker'.kind = "location"
    /\ Abs(tracker'.lat - latitude) > 1 \/ Abs(tracker'.lon - longitude) > 1
    /\ connected
    /\ ~unloading

\* C10: once connect() has returned, after a resubscription that failed, the
\* next location change beyond the threshold starts a resubscription again.
C10_RetryOnNextChange ==
    [][(/\ conn_pc = "done"
        /\ last_batch.ended /\ last_batch.failed
        /\ tasks = <<>>
        /\ QualifyingStep) =>
          Len(tasks') = Len(tasks) + 1]_vars

(***************************************************************************)
(* Properties of the strike pipeline.                                      *)
(***************************************************************************)

\* A step in which on_mqtt_message takes a strike message and decodes it.
ReceiveStep ==
    /\ n_msgs' = n_msgs + 1
    /\ is_strike_topic(last_topic')
    /\ last_payload' = "strike"

StrikeCalls(calls) == SelectSeq(calls, LAMBDA c : c.kind # "message")

PropagateStep(lightning) ==
    \/ /\ ReceiveStep
       /\ ~enable_geocoding
       /\ lightning = last_msg'
       /\ lightning.distance < self_radius * 10
    \/ /\ Len(pending') < Len(pending)
       /\ \E i \in DOMAIN pending : lightning = pending[i] /\ pending' = RemoveAt(pending, i)

\* The listeners for strikes, in the order of their registration.
StrikeListeners == SelectSeq(registered, LAMBDA r : r.kind # "message")

ListenersOf(kind) == SelectSeq(registered, LAMBDA r : r.kind = kind)

ConnectFailureStep ==
    /\ n_failures' = n_failures + 1
    /\ tasks' = tasks

\* C11: when async_connect or an async_subscribe awaited by connect() raises,
\* connect() raises and async_setup_entry raises with it; setup never
\* reports success afterwards.
C11_ConnectErrorFailsSetup ==
    [][/\ ConnectFailureStep => (conn_pc' = "failed" /\ setup_result' = "raised")
       /\ setup_result = "raised" => setup_result' = "raised"]_vars

\* A subscribe of connect() raised after another had succeeded.
C11_SubscribeRaisedSeen ==
    /\ setup_result = "raised"
    /\ HeldTileTopics # {}

\* C14: once disconnect() has returned, the tick listener and the state
\* change listener of the tracked entity are registered no more, so that
\* neither _tick nor _device_tracker_state_changed runs again.
C14_ListenersRemoved ==
    (n_disconnects >= 1 /\ disc_pc = "idle") =>
        /\ "tick" \notin listening
        /\ "state_change" \notin listening
        /\ ~ENABLED Tick
        /\ \A new_state \in TrackerStates : ~ENABLED DeviceTrackerStateChanged(new_state)

\* disconnect() has returned for a coordinator in tracking mode whose
\* connect() had registered both listeners.
C14_TornDownSeen ==
    /\ n_disconnects >= 1
    /\ disc_pc = "idle"
    /\ tracking_mode = "device_tracker"
    /\ \E k \in DOMAIN disconnect_callbacks : disconnect_callbacks[k] = "tick"
    /\ \E k \in DOMAIN disconnect_callbacks : disconnect_callbacks[k] = "state_change"

(***************************************************************************)
(* Properties of the tracked location.                                     *)
(***************************************************************************)

\* A step that takes a state change of the tracked entity that carries no
\* location: the state is gone, unavailable or unknown, or has no numeric
\* latitude and longitude.
NoLocationStep ==
    /\ n_events' = n_events + 1
    /\ tracker'.kind # "location"

\* The step of connect() that reads the tracked entity when it carries no
\* location.
NoInitialLocationStep ==
    /\ conn_pc = "connecting"
    /\ conn_pc' = "subscribing"
    /\ tracker.kind # "location"

\* C13: a state of the tracked entity without a location is no update:
\* latitude, longitude and coverage stay as they are and no subscribe or
\* unsubscribe is issued, now or in a task.
C13_NoLocationNoUpdate ==
    [][(NoLocationStep \/ NoInitialLocationStep) =>
          UNCHANGED <<latitude, longitude, self_geohash_overlap, subscriptions, tasks>>]_vars

\* A connected coordinator in tracking mode has taken a state without a
\* location.
C13_NoLocationSeen ==
    /\ n_events > 0
    /\ conn_pc = "done"
    /\ tracking_mode = "device_tracker"
    /\ tracker.kind \in {"unavailable", "no_coordinates"}
    /\ ~location_available

\* C15: while the coordinator is unloading, a step of a resubscription task
\* leaves no more subscriptions held than before: what the task subscribes
\* after disconnect() was called is unsubscribed at once.
C15_LateSubscriptionsReleased ==
    [][(unloading /\ tasks' # tasks) =>
          \A topic \in BagToSet(subscriptions') :
              CopiesIn(topic, subscriptions') <= CopiesIn(topic, subscriptions)]_vars

\* C16: once connect() has returned, a change of the tracked location beyond
\* the threshold sets latitude and longitude to the reported ones and starts
\* exactly one resubscription.
C16_MoveRefreshesOnce ==
    [][(conn_pc = "done" /\ QualifyingStep) =>
          /\ latitude' = tracker'.lat
          /\ longitude' = tracker'.lon
          /\ Len(tasks') = Len(tasks) + 1]_vars

(***************************************************************************)
(* Properties of decoding and of idle detection.                           *)
(***************************************************************************)

\* A step in which on_mqtt_message takes a message on a strike topic whose
\* payload is no JSON or has no lat and lon.
UndecodableStep ==
    /\ n_msgs' = n_msgs + 1
    /\ is_strike_topic(last_topic')
    /\ last_payload' # "strike"

\* C12: a strike message that cannot be decoded is dropped: no lightning
\* receiver and no sensor is invoked, last_time stays, and on_mqtt_message
\* raises nothing.
C12_UndecodableDropped ==
    [][UndecodableStep =>
          /\ StrikeCalls(invoked') = <<>>
          /\ UNCHANGED <<last_time, pending>>
          /\ ~escaped']_vars

\* C17: with time_window_seconds = 0, is_inactive is false; otherwise it is
\* true exactly when now - last_time >= time_window_seconds.
C17_InactiveIffWindowElapsed ==
    /\ time_window_seconds = 0 => ~is_inactive
    /\ time_window_seconds # 0 =>
          (is_inactive <=> now - last_time >= time_window_seconds)

\* A strike was accepted and the window has elapsed since.
C17_IdleAgainSeen ==
    /\ time_window_seconds # 0
    /\ last_time > 0
    /\ now - last_time = time_window_seconds
    /\ is_inactive

(***************************************************************************)
(* Properties of the precision search.                                     *)
(***************************************************************************)

\* The tiles of the solver's input at precision q.
TilesAt(q) == compute_geohash_tiles(g_in.lat, g_in.lon, g_in.radius, q)

\* The precision of the solver's result: the length of its tiles, 0 for the
\* empty result.
ResultPrecision == IF g_out = {} THEN 0 ELSE Len(CHOOSE t \in g_out : TRUE)

\* C18: the result of geohash_overlap is the tile set of the finest precision
\* p in 1..12 such that every precision 1..p stays within the budget of 9
\* tiles: the search stopped at precision p + 1, the first one over budget,
\* and returned what the precision before it gave (nothing when p + 1 = 1).
C18_FinestWithinBudget ==
    g_pc = "solved" =>
        LET p == ResultPrecision
        IN  /\ p <= last_precision
            /\ \A q \in 1..p : Cardinality(TilesAt(q)) <= max_tiles
            /\ p >= 1 => g_out = TilesAt(p)
            /\ p < last_precision => Cardinality(TilesAt(p + 1)) > max_tiles

\* A search that went past two precisions and returned the third.
C18_ThirdPrecisionSeen ==
    /\ g_pc = "solved"
    /\ ResultPrecision = 3
    /\ Cardinality(g_out) > 1
    /\ Cardinality(TilesAt(4)) > max_tiles

(***************************************************************************)
(* Properties of the coverage as seen by a strike.                         *)
(***************************************************************************)

\* C19: in every quiescent state of a connected coordinator in which no
\* subscribe has failed, every strike within the radius of the observer's
\* current point is published on a topic that a held tile subscription
\* matches.
C19_StrikesInRadiusDelivered ==
    (Quiescent /\ n_failures = 0) =>
        \A strike \in Strikes :
            in_radius(compute_polar_coords(strike).distance, self_radius)
                => Delivered(StrikeTopicTable[strike])

(***************************************************************************)
(* Properties of the polar coordinates of a strike.                        *)
(***************************************************************************)

\* C20: the distance and the azimuth that on_mqtt_message gives a strike are
\* those from the observer's latitude and longitude at the time of the call,
\* and the strike is accepted (last_time set to the clock) exactly when that
\* distance is below the radius.
C20_MeasuredFromCurrentPoint ==
    [][ReceiveStep =>
          LET here == PolarTable[Place(latitude, longitude),
                                 Strike(last_msg'.lat, last_msg'.lon)]
          IN  /\ last_msg'.distance = here.distance
              /\ last_msg'.azimuth = here.azimuth
              /\ IF in_radius(here.distance, self_radius)
                 THEN last_time' = now
                 ELSE UNCHANGED last_time]_vars

\* After a move from Home to Far a strike from a tile that was subscribed for
\* Home is accepted at 5.4 km, though it is beyond the radius from Home.
C20_MeasuredAfterMoveSeen ==
    /\ n_events >= 1
    /\ Place(latitude, longitude) = Far
    /\ last_payload = "strike"
    /\ last_msg.lat = 50451
    /\ last_msg.distance = PolarTable[Far, Strike(50451, 10000)].distance
    /\ in_radius(last_msg.distance, self_radius)
    /\ ~in_radius(PolarTable[Home, Strike(50451, 10000)].distance, self_radius)
    /\ last_time = now /\ now > 0

(***************************************************************************)
(* Properties of messages outside the strike namespace.                    *)
(***************************************************************************)

\* A step in which on_mqtt_message takes a message whose topic does not
\* start with blitzortung/1.1.
OtherTopicStep ==
    /\ n_msgs' = n_msgs + 1
    /\ ~(Len(last_topic') >= 2 /\ last_topic'[1] = "blitzortung" /\ last_topic'[2] = "1.1")

\* C21: a message on a topic outside blitzortung/1.1 is not decoded as a
\* strike, reaches no lightning receiver and no sensor, starts no geocoding,
\* leaves last_time alone and raises nothing, whatever its payload is.
C21_OtherTopicIgnored ==
    [][OtherTopicStep =>
          /\ UNCHANGED <<last_msg, last_time, pending>>
          /\ StrikeCalls(invoked') = <<>>
          /\ ~escaped']_vars

\* A broker statistic whose payload would decode as a strike within the
\* radius was taken while a sensor was registered, and only the message
\* receivers saw it.
C21_StatisticSeen ==
    /\ last_topic = StatsTopic
    /\ last_payload = "strike"
    /\ sensors # <<>>
    /\ callbacks # <<>>
    /\ invoked # <<>>
    /\ last_msg = NoStrike
    /\ last_time = 0

(***************************************************************************)
(* Properties of the box test.                                             *)
(***************************************************************************)

\* The target box of the solver's input.
TargetBox == bbox(g_in.lat, g_in.lon, g_in.radius)

\* The interiors of the rectangle of `tile` and of the target box meet on
\* both axes.
MeetsTarget(tile) ==
    LET b == geohash_bbox(tile)
    IN  /\ b.s < TargetBox.n /\ b.n > TargetBox.s
        /\ b.w < TargetBox.e /\ b.e > TargetBox.w

\* The rectangle of `tile` and the target box share an edge line but no
\* interior point.
TouchesTarget(tile) ==
    LET b == geohash_bbox(tile)
    IN  /\ ~MeetsTarget(tile)
        /\ b.s <= TargetBox.n /\ b.n >= TargetBox.s
        /\ b.w <= TargetBox.e /\ b.e >= TargetBox.w

\* `tiles` holds, besides the centre, only tiles that meet the target box,
\* and every neighbour of one of its tiles that meets the target box.
OverlapClosed(tiles, center) ==
    /\ \A t \in tiles : t = center \/ MeetsTarget(t)
    /\ \A t \in tiles : \A nb \in neighbors(t) : MeetsTarget(nb) => nb \in tiles

\* C22: the tiles that compute_geohash_tiles adds are exactly the neighbours
\* whose rectangle overlaps the target box on both axes under strict
\* inequality; a neighbour that only touches the box is left out.  Checked
\* for the coverage at precision 1 and for the coverage returned.
C22_StrictOverlap ==
    g_pc = "solved" =>
        /\ OverlapClosed(TilesAt(1), encode(g_in.lat, g_in.lon, 1))
        /\ g_out # {} =>
              OverlapClosed(g_out, encode(g_in.lat, g_in.lon, ResultPrecision))
        /\ \A t \in g_out : \A nb \in neighbors(t) : TouchesTarget(nb) => nb \notin g_out

\* A coverage was returned that has a neighbour on the edge of the target box.
C22_EdgeTouchSeen ==
    /\ g_pc = "solved"
    /\ \E t \in g_out : \E nb \in neighbors(t) : TouchesTarget(nb) /\ nb \notin g_out

(***************************************************************************)
(* Properties of the polar coordinates computed for one strike.            *)
(***************************************************************************)

Measured == p_out # NoPolar

\* The strike of the polar run relative to its observer, in millidegrees.
NorthOf == p_in.lat - p_in.lat0
EastOf == p_in.lon - p_in.lon0

\* C23: a strike at the observer's point has distance 0.0 and azimuth 0.
C23_SamePointIsZero ==
    (Measured /\ NorthOf = 0 /\ EastOf = 0) => p_out = [distance |-> 0, azimuth |-> 0]

\* A strike at an observer away from the equator and the prime meridian was
\* measured.
C23_SamePointSeen ==
    /\ Measured
    /\ NorthOf = 0 /\ EastOf = 0
    /\ p_in.lat0 = 80000 /\ p_in.lon0 = 179000
    /\ p_out.distance = 0

HaversineTable ==
    <<-60000, 0, 0>> :> 0 @@
    <<-60000, 300, 0>> :> 334 @@
    <<-60000, -300, 0>> :> 334 @@
    <<-60000, 0, 300>> :> 167 @@
    <<-60000, 0, -300>> :> 167 @@
    <<-60000, 2000, 0>> :> 2224 @@
    <<-60000, 1, -300>> :> 167 @@
    <<-60000, -1, -300>> :> 167 @@
    <<-60000, 2000, -2000>> :> 2501 @@
    <<-60000, -2000, 2000>> :> 2471 @@
    <<-60000, 1000, -1000>> :> 1247 @@
    <<-60000, -1000, 1000>> :> 1239 @@
    <<0, 0, 0>> :> 0 @@
    <<0, 300, 0>> :> 334 @@
    <<0, -300, 0>> :> 334 @@
    <<0, 0, 300>> :> 334 @@
    <<0, 0, -300>> :> 334 @@
    <<0, 2000, 0>> :> 2224 @@
    <<0, 1, -300>> :> 334 @@
    <<0, -1, -300>> :> 334 @@
    <<0, 2000, -2000>> :> 3145 @@
    <<0, -2000, 2000>> :> 3145 @@
    <<0, 1000, -1000>> :> 1572 @@
    <<0, -1000, 1000>> :> 1572 @@
    <<50000, 0, 0>> :> 0 @@
    <<50000, 300, 0>> :> 334 @@
    <<50000, -300, 0>> :> 334 @@
    <<50000, 0, 300>> :> 214 @@
    <<50000, 0, -300>> :> 214 @@
    <<50000, 2000, 0>> :> 2224 @@
    <<50000, 1, -300>> :> 214 @@
    <<50000, -1, -300>> :> 214 @@
    <<50000, 2000, -2000>> :> 2627 @@
    <<50000, -2000, 2000>> :> 2660 @@
    <<50000, 1000, -1000>> :> 1318 @@
    <<50000, -1000, 1000>> :> 1326 @@
    <<80000, 0, 0>> :> 0 @@
    <<80000, 300, 0>> :> 334 @@
    <<80000, -300, 0>> :> 334 @@
    <<80000, 0, 300>> :> 58 @@
    <<80000, 0, -300>> :> 58 @@
    <<80000, 2000, 0>> :> 2224 @@
    <<80000, 1, -300>> :> 58 @@
    <<80000, -1, -300>> :> 58 @@
    <<80000, 2000, -2000>> :> 2251 @@
    <<80000, -2000, 2000>> :> 2264 @@
    <<80000, 1000, -1000>> :> 1127 @@
    <<80000, -1000, 1000>> :> 1130

\* C25: the distance computed is the haversine distance rounded to one
\* decimal place.
C25_HaversineDistance ==
    Measured => p_out.distance = HaversineTable[<<p_in.lat0, NorthOf, EastOf>>]

(***************************************************************************)
(* Properties of the migration of a config entry.                          *)
(***************************************************************************)

Migrated == m_out # NoEntry

\* C26: async_migrate_entry brings a version-5 entry to version 6; with a
\* location entity in its data the entry gets config_type tracker and keeps
\* the entity, without one it gets config_type coordinates and keeps its
\* latitude and longitude or takes those of Home Assistant.
C26_Version5To6 ==
    (Migrated /\ m_in.version = 5) =>
        /\ m_out.version = 6
        /\ m_out.location_entity = m_in.location_entity
        /\ IF m_in.location_entity
           THEN m_out.config_type = "tracker"
           ELSE /\ m_out.config_type = "coordinates"
                /\ m_out.data_latlon = IF m_in.data_latlon = Absent THEN HassLocation
                                       ELSE m_in.data_latlon

(***************************************************************************)
(* Properties of the subscriptions held at one time.                       *)
(***************************************************************************)

\* C27: at no time does the client hold more than one subscription to the
\* same tile topic (each would call on_mqtt_message for the same strike).
C27_NoDuplicateTileTopic ==
    \A topic \in HeldTileTopics : CopiesIn(topic, subscriptions) <= 1

(***************************************************************************)
(* Properties of the availability flag.                                    *)
(***************************************************************************)

\* A step in which _device_tracker_state_changed handles a state change of
\* the tracked entity (tracking mode, not unloading).
ReportStep ==
    /\ n_events' = n_events + 1
    /\ tracking_mode = "device_tracker"
    /\ ~unloading

\* C28: after a state change with valid coordinates has been handled,
\* _location_available is true and is_connected is the transport's connected
\* flag; after one without a usable location _location_available is false.
C28_AvailabilityFollowsTracker ==
    [][ReportStep =>
          IF tracker'.kind = "location"
          THEN location_available' /\ (is_connected' <=> connected')
          ELSE ~location_available']_vars

(***************************************************************************)
(* Properties of the order of the strikes.                                 *)
(***************************************************************************)

\* A step in which a call of on_mqtt_message that was suspended in
\* reverse_geocode goes on to its listeners.
ResumeStep == Len(pending') < Len(pending)

\* C29: the strike that goes on to the listeners is always the one whose
\* message arrived first among those still suspended, so the listeners see
\* the accepted strikes in the order of arrival.
C29_ArrivalOrder ==
    [][ResumeStep =>
          /\ pending' = Tail(pending)
          /\ \A k \in 1..Len(invoked') : invoked'[k].strike = Head(pending)]_vars

(***************************************************************************)
(* Properties of the sensors.                                              *)
(***************************************************************************)

\* C30: a tick resets the value of a lightning sensor to the initial state
\* of its class (None for distance and azimuth, 0 for the counter) exactly
\* when the value differs from it and the coordinator is inactive; in every
\* other case the tick leaves the value as it was.
C30_TickResetsWhenInactive ==
    [][Tick =>
          \A id \in DOMAIN entities :
              LET entity == entities[id]
                  initial == IF entity.klass = "counter" THEN 0 ELSE None
              IN  entity.klass \in LightningSensors =>
                    /\ (entity.native_value # initial /\ is_inactive)
                          => entities'[id].native_value = initial
                    /\ ~(entity.native_value # initial /\ is_inactive)
                          => entities'[id].native_value = entity.native_value]_vars

\* A lightning sensor that took the last accepted strike has the initial
\* value of its class again: a tick has reset it.
C30_ResetSeen ==
    /\ "tick" \in listening
    /\ \E k \in DOMAIN invoked :
          /\ invoked[k].kind = "sensor"
          /\ entities[invoked[k].listener].klass \in LightningSensors
          /\ entities[invoked[k].listener].native_value
                = INITIAL_STATE(entities[invoked[k].listener].klass)

\* A step in which on_mqtt_message takes a strike whose distance is below
\* the radius and, geocoding being off, goes on to its listeners at once.
AcceptStep ==
    /\ ReceiveStep
    /\ ~enable_geocoding
    /\ in_radius(last_msg'.distance, self_radius)

\* C31: the value of the counter sensor is the number of strikes accepted
\* since the sensor was added or last reset: every accepted strike adds one
\* to it, and any other step leaves it as it was or resets it to 0.
C31_CounterCountsAccepted ==
    [][\A id \in DOMAIN entities :
          entities[id].klass = "counter" =>
             IF AcceptStep
             THEN entities'[id].native_value = entities[id].native_value + 1
             ELSE \/ entities'[id].native_value = entities[id].native_value
                  \/ entities'[id].native_value = 0]_vars

(***************************************************************************)
(* Properties of the unloading.                                            *)
(***************************************************************************)

\* A step in which hass calls _device_tracker_state_changed or the
\* dispatcher calls _on_connection_change.
ListenerStep ==
    \/ n_events' = n_events + 1
    \/ n_signals' = n_signals + 1

\* C32: once disconnect() has set unloading, a state change of the tracked
\* entity or a connection signal changes nothing of the coordinator: its
\* point, its coverage and its location flag stay, no resubscription is
\* started and no sensor state is written.
C32_UnloadingFreezes ==
    [][(unloading /\ ListenerStep) =>
          /\ UNCHANGED <<latitude, longitude, self_geohash_overlap, location_available,
                         tasks, subscriptions, connected, unloading>>
          /\ last_handler'.written = <<>>]_vars

\* Both listeners have run while disconnect() was awaiting the transport:
\* a connection signal came with sensors registered, and the tracked entity
\* reported a point away from the observer's.
C32_LateListenersSeen ==
    /\ unloading
    /\ sensors # <<>>
    /\ last_handler = [name |-> "connection_change", unloading |-> TRUE, written |-> <<>>]
    /\ tracker.kind = "location"
    /\ tracker.lat # latitude

(***************************************************************************)
(* Properties of compute_geohash_tiles.                                    *)
(***************************************************************************)

\* The rows and the columns of the grid of precision p whose interval of
\* latitude or longitude overlaps that of the box.
RowsOver(p, box) ==
    { row \in 0..(2^LatBits(p) - 1) :
        /\ row * CellH(p) - 90000 * Scale < box.n
        /\ (row + 1) * CellH(p) - 90000 * Scale > box.s }

ColsOver(p, box) ==
    { col \in 0..(2^LonBits(p) - 1) :
        /\ col * CellW(p) - 180000 * Scale < box.e
        /\ (col + 1) * CellW(p) - 180000 * Scale > box.w }

\* Every tile of precision p whose bounding box overlaps the box.
TilesOver(p, box) ==
    { TileOf(row, col, p) : row \in RowsOver(p, box), col \in ColsOver(p, box) }

\* C33: compute_geohash_tiles returns every tile of the precision whose
\* bounding box overlaps the box around the centre, and no other tile.
C33_EveryOverlappingTile ==
    f_pc = "returned" =>
        checked = TilesOver(f_in.precision, bbox(f_in.lat, f_in.lon, f_in.radius))

\* A call has returned a set that the centre and its neighbours do not
\* exhaust: tiles two or more steps away were reached.
C33_BeyondNeighboursSeen ==
    /\ f_pc = "returned"
    /\ \E tile \in checked :
          LET center == encode(f_in.lat, f_in.lon, f_in.precision)
          IN  tile # center /\ tile \notin neighbors(center)

\* C34: compute_geohash_tiles terminates: a tile that goes on the stack was
\* not checked before, so no tile is stacked twice, and every run of the
\* loop comes to the empty stack and returns.
C34_LoopTerminates ==
    /\ [][\A tile \in stack' \ stack : tile \notin checked]_vars
    /\ <>(f_pc = "returned")

\* A call has returned after its loop took more than one tile from the
\* stack.
C34_LoopRanSeen ==
    /\ f_pc = "returned"
    /\ stack = {}
    /\ Cardinality(checked) > 2

(***************************************************************************)
(* Properties of the reverse geocoding.                                    *)
(***************************************************************************)

\* C35: when reverse_geocode returns nothing or raises, the strike is still
\* passed on: it gets a placeholder for its area, last_time is set, and
\* every lightning receiver and every sensor is called with it.
C35_FailureStillDelivers ==
    [][(ResumeStep /\ enrichment'.geocode \in {"nothing", "raised"}) =>
          /\ enrichment'.area \in {"Unknown", "Geocoding Failed"}
          /\ last_time' = now
          /\ \A k \in DOMAIN lightning_callbacks :
                \E c \in DOMAIN invoked' :
                    invoked'[c].listener = lightning_callbacks[k]
          /\ \A k \in DOMAIN sensors :
                \E c \in DOMAIN invoked' :
                    invoked'[c].listener = sensors[k]]_vars

\* C36: any two requests to the geocoding service are at least
\* _min_request_interval (1 second) apart.
C36_RequestsSpaced ==
    \A j \in DOMAIN requests : \A k \in DOMAIN requests :
        j < k => requests[k] - requests[j] >= 1

\* C37: the cache never holds more than _max_cache_size (500) entries, and
\* an addition to a full cache removes the key that was inserted first and
\* no other key; no step removes any other key or reorders the keys kept.
C37_CacheBoundedFifo ==
    [][/\ Len(_geocoding_cache') <= 500
       /\ Keys(_geocoding_cache) \ Keys(_geocoding_cache') \subseteq
             (IF Len(_geocoding_cache) >= 500 THEN {_geocoding_cache[1]} ELSE {})
       /\ Cardinality(Keys(_geocoding_cache')) = Len(_geocoding_cache')
       /\ \E drop \in {0, 1} :
             /\ Len(_geocoding_cache') >= Len(_geocoding_cache) - drop
             /\ \A k \in 1..(Len(_geocoding_cache) - drop) :
                   _geocoding_cache'[k] = _geocoding_cache[k + drop]]_vars

\* A full cache has taken a result for a place it did not hold: the oldest
\* key is gone and the new one is the last.
C37_EvictionSeen ==
    /\ Len(_geocoding_cache) = 500
    /\ _geocoding_cache[1] = 2
    /\ _geocoding_cache[500] = 501

\* C38: in the polling coordinator a refresh never lowers last_time, a
\* refresh that fails leaves it as it was, a refresh returns only strikes
\* whose time is greater than last_time was when it began, and it returns
\* no strike that an earlier refresh returned.
C38_RefreshesDisjoint ==
    [][n_refreshes' = n_refreshes + 1 =>
          /\ poll_last_time' >= poll_last_time
          /\ refreshed'.outcome = "failed" =>
                poll_last_time' = poll_last_time /\ refreshed'.returned = <<>>
          /\ \A i \in DOMAIN refreshed'.returned :
                /\ refreshed'.returned[i].time > poll_last_time
                /\ refreshed'.returned[i] \notin returned_before']_vars

\* A refresh has returned strikes after an earlier refresh returned some,
\* from a response that also held a strike not newer than last_time.
C38_SecondBatchSeen ==
    /\ refreshed.outcome = "ok"
    /\ refreshed.returned # <<>>
    /\ returned_before # {}
    /\ poll_last_time > refreshed.before

\* C39: after every insort and cleanup the items of the Strikes list are in
\* the order of their publication dates and _keys holds, index by index,
\* the key of each item; cleanup(k) returns the items whose key is at most
\* k, removes them and leaves the others.
C39_StrikesSorted ==
    [][/\ Len(_keys') = Len(_strikes')
       /\ \A i \in DOMAIN _strikes' : _keys'[i] = _strikes'[i]._publication_date
       /\ \A i \in DOMAIN _strikes' : \A j \in DOMAIN _strikes' :
             i < j => _strikes'[i]._publication_date <= _strikes'[j]._publication_date
       /\ (n_calls' = n_calls + 1 /\ cleaned'.op = "cleanup") =>
             /\ cleaned'.returned =
                   SelectSeq(_strikes, LAMBDA s : s._publication_date <= cleaned'.k)
             /\ _strikes' =
                   SelectSeq(_strikes, LAMBDA s : s._publication_date > cleaned'.k)]_vars

\* cleanup has cut off two items of the date it was given, and left an item.
C39_CleanupCutSeen ==
    /\ cleaned.op = "cleanup"
    /\ Len(cleaned.returned) >= 2
    /\ \A i \in DOMAIN cleaned.returned : cleaned.returned[i]._publication_date = cleaned.k
    /\ cleaned.returned[1] # cleaned.returned[2]
    /\ _strikes # <<>>

====
